---- MODULE Spec2Model ----
(***************************************************************************)
(* Personal-Finance-Auto-Pilot: the merchant normalizer, the categorization *)
(* engine with its rule store and learning loop, the raw-SQL safety layer   *)
(* and the pgvector document store, modelled from the TypeScript sources.   *)
(*                                                                         *)
(* JavaScript strings are TLA+ strings; a character is a string of length   *)
(* one, read with SubSeq.                                                   *)
(***************************************************************************)
EXTENDS Integers, Sequences, FiniteSets, TLC

VARIABLES
  transactions,   \* rows of the transactions table
  nextTxnId,      \* the serial of transactions.id
  categoryRules,  \* rows of the category_rules table
  nextRuleId,     \* the serial of category_rules.id
  vectorStore,    \* rows of the vector_store table
  nextDocId,      \* the serial of vector_store.id
  env,            \* the process environment and the stubbed hosted model
  agent,          \* the state of the agent graph's run, and the node it is at
  indexing,       \* the background indexing started by each upload
  learning,       \* the calls of learnFromCorrection under way or returned
  last            \* the last operation: its inputs, and what it returned

vars == <<transactions, nextTxnId, categoryRules, nextRuleId, vectorStore,
          nextDocId, env, agent, indexing, learning, last>>

-----------------------------------------------------------------------------
(* JavaScript string primitives                                             *)

Ch(s, i) == SubSeq(s, i, i)

LowerLetters == "abcdefghijklmnopqrstuvwxyz"
UpperLetters == "ABCDEFGHIJKLMNOPQRSTUVWXYZ"
Digits == "0123456789"

LowerSet == {Ch(LowerLetters, i) : i \in 1..26}
UpperSet == {Ch(UpperLetters, i) : i \in 1..26}
DigitSet == {Ch(Digits, i) : i \in 1..10}

IsUpperLetter(c) == c \in UpperSet
IsLowerLetter(c) == c \in LowerSet
IsDigit(c) == c \in DigitSet
\* \s of a JavaScript regular expression, and what trim() removes
IsSpace(c) == c \in {" ", "\t", "\n", "\r"}
\* \w of a JavaScript regular expression
IsWordChar(c) == IsUpperLetter(c) \/ IsLowerLetter(c) \/ IsDigit(c) \/ c = "_"

UpperOf ==
  [c \in LowerSet |->
     Ch(UpperLetters, CHOOSE i \in 1..26 : Ch(LowerLetters, i) = c)]

UpperChar(c) == IF IsLowerLetter(c) THEN UpperOf[c] ELSE c

Min(S) == CHOOSE i \in S : \A j \in S : i <= j
Max(S) == CHOOSE i \in S : \A j \in S : i >= j

\* Sequencing: evaluate value, then continue with Step(value).  (TLC evaluates
\* LET definitions and operator arguments on demand; a statement of the code
\* is evaluated when control reaches it.)
Then(value, Step(_)) == CHOOSE r \in {Step(v) : v \in {value}} : TRUE

\* an array or a table given by a formula for its elements, with the elements
\* evaluated
Array(f) == f @@ << >>

\* The concatenation Piece(lo) \o ... \o Piece(hi), by halving
RECURSIVE Join(_, _, _)
Join(Piece(_), lo, hi) ==
  IF lo > hi THEN ""
  ELSE IF lo = hi THEN Piece(lo)
  ELSE LET mid == (lo + hi) \div 2
       IN  Join(Piece, lo, mid) \o Join(Piece, mid + 1, hi)

toUpperCase(s) ==
  IF \A i \in 1..Len(s) : ~IsLowerLetter(Ch(s, i)) THEN s
  ELSE Join(LAMBDA i : UpperChar(Ch(s, i)), 1, Len(s))

trimStart(s) ==
  LET kept == {i \in 1..Len(s) : ~IsSpace(Ch(s, i))}
  IN  IF kept = {} THEN "" ELSE SubSeq(s, Min(kept), Len(s))

trimEnd(s) ==
  LET kept == {i \in 1..Len(s) : ~IsSpace(Ch(s, i))}
  IN  IF kept = {} THEN "" ELSE SubSeq(s, 1, Max(kept))

trim(s) == trimEnd(trimStart(s))

startsWith(s, p) == Len(p) <= Len(s) /\ SubSeq(s, 1, Len(p)) = p

includes(s, p) ==
  \E i \in 1..(Len(s) - Len(p) + 1) : SubSeq(s, i, i + Len(p) - 1) = p

\* s.slice(n): the string without its first n characters
slice(s, n) == SubSeq(s, n + 1, Len(s))

AllDigits(s) == \A i \in 1..Len(s) : IsDigit(Ch(s, i))
AllSpaces(s) == \A i \in 1..Len(s) : IsSpace(Ch(s, i))
AllUpperLetters(s) == \A i \in 1..Len(s) : IsUpperLetter(Ch(s, i))
AllLetters(s) ==
  \A i \in 1..Len(s) : IsUpperLetter(Ch(s, i)) \/ IsLowerLetter(Ch(s, i))

\* s.replace(/<pattern>$/, ''): an end-anchored pattern without the g flag
\* removes its leftmost match, i.e. the longest suffix the pattern matches.
\* Matches(m) says that the pattern matches the whole of m.
ReplaceAtEnd(s, Matches(_)) ==
  LET starts == {i \in 1..Len(s) : Matches(SubSeq(s, i, Len(s)))}
  IN  IF starts = {} THEN s ELSE SubSeq(s, 1, Min(starts) - 1)

\* s.replace(/\s+/g, ' '): every maximal run of whitespace becomes one space
collapseWhitespace(s) ==
  Join(LAMBDA i : IF ~IsSpace(Ch(s, i)) THEN Ch(s, i)
                  ELSE IF i = 1 \/ ~IsSpace(Ch(s, i - 1)) THEN " "
                  ELSE "",
       1, Len(s))

-----------------------------------------------------------------------------
(* Merchant normalizer                                                      *)

MERCHANT_PREFIXES ==
  << "SQ *", "SQU*", "SQ*",
     "TST*", "TOAST*",
     "PP*", "PAYPAL *",
     "AMZN ", "AMAZON.COM*", "AMZ*",
     "GOOGLE *", "GOOGLE*",
     "APPLE.COM/", "APPLE *",
     "SP ", "SP*",
     "CKE*", "CHK*",
     "POS ",
     "DEBIT ",
     "PURCHASE ",
     "ACH ",
     "CHECKCARD ",
     "RECURRING " >>

\* The literal entries of MERCHANT_SUFFIXES; entries 6 to 9 are the patterns
\* ' #\d+', ' \d{3,}', ' [A-Z]{2} \d{5}' and ' \d{2}/\d{2}'.
MERCHANT_SUFFIXES == << " LLC", " INC", " CORP", " CO", " LTD" >>

NumMerchantSuffixes == 9

\* new RegExp(MERCHANT_SUFFIXES[k] + '$', 'i') matches the whole of m
SuffixMatches(k, m) ==
  CASE k <= 5 -> /\ Len(m) = Len(MERCHANT_SUFFIXES[k])
                 /\ toUpperCase(m) = toUpperCase(MERCHANT_SUFFIXES[k])
    [] k = 6 -> /\ Len(m) >= 3
                /\ SubSeq(m, 1, 2) = " #"
                /\ AllDigits(SubSeq(m, 3, Len(m)))
    [] k = 7 -> /\ Len(m) >= 4
                /\ Ch(m, 1) = " "
                /\ AllDigits(SubSeq(m, 2, Len(m)))
    [] k = 8 -> /\ Len(m) = 9
                /\ Ch(m, 1) = " "
                /\ AllLetters(SubSeq(m, 2, 3))
                /\ Ch(m, 4) = " "
                /\ AllDigits(SubSeq(m, 5, 9))
    [] k = 9 -> /\ Len(m) = 6
                /\ Ch(m, 1) = " "
                /\ AllDigits(SubSeq(m, 2, 3))
                /\ Ch(m, 4) = "/"
                /\ AllDigits(SubSeq(m, 5, 6))

\* /\s+\d{4,}$/ matches the whole of m
TrailingIdMatches(m) ==
  \E k \in 1..(Len(m) - 4) :
     /\ AllSpaces(SubSeq(m, 1, k))
     /\ AllDigits(SubSeq(m, k + 1, Len(m)))

\* /\s+[A-Z]{2,}\s+[A-Z]{2}$/ matches the whole of m
CityStateMatches(m) ==
  /\ Len(m) >= 6
  /\ AllUpperLetters(SubSeq(m, Len(m) - 1, Len(m)))
  /\ \E k \in 1..(Len(m) - 5) :
        /\ AllSpaces(SubSeq(m, 1, k))
        /\ \E j \in (k + 2)..(Len(m) - 3) :
              /\ AllUpperLetters(SubSeq(m, k + 1, j))
              /\ AllSpaces(SubSeq(m, j + 1, Len(m) - 2))

\* the loop over MERCHANT_PREFIXES, from entry k on
RECURSIVE StripPrefixes(_, _)
StripPrefixes(s, k) ==
  IF k > Len(MERCHANT_PREFIXES) THEN s
  ELSE IF startsWith(s, MERCHANT_PREFIXES[k])
       THEN Then(trim(slice(s, Len(MERCHANT_PREFIXES[k]))),
                 LAMBDA rest : StripPrefixes(rest, k + 1))
       ELSE StripPrefixes(s, k + 1)

\* the loop over MERCHANT_SUFFIXES, from entry k on
RECURSIVE StripSuffixes(_, _)
StripSuffixes(s, k) ==
  IF k > NumMerchantSuffixes THEN s
  ELSE Then(trim(ReplaceAtEnd(s, LAMBDA m : SuffixMatches(k, m))),
            LAMBDA rest : StripSuffixes(rest, k + 1))

normalizeMerchant(description) ==
  Then(trim(toUpperCase(description)), LAMBDA upper :
  Then(StripPrefixes(upper, 1), LAMBDA noPrefix :
  Then(StripSuffixes(noPrefix, 1), LAMBDA noSuffix :
  Then(trim(collapseWhitespace(noSuffix)), LAMBDA spaced :
  Then(trim(ReplaceAtEnd(spaced, TrailingIdMatches)), LAMBDA noId :
       trim(ReplaceAtEnd(noId, CityStateMatches)))))))

-----------------------------------------------------------------------------
(* Rule store: the category_rules table and its queries                     *)

\* Code-point order of the characters the model's strings use
\* (ORDER BY on a text column, C collation)
CharOrder ==
  " !#$%&'()*+,-./0123456789:;<=>?@ABCDEFGHIJKLMNOPQRSTUVWXYZ[]^_abcdefghijklmnopqrstuvwxyz"

CharRank(c) ==
  IF \E i \in 1..Len(CharOrder) : Ch(CharOrder, i) = c
  THEN CHOOSE i \in 1..Len(CharOrder) : Ch(CharOrder, i) = c
  ELSE 0

StrLess(a, b) ==
  LET n == IF Len(a) < Len(b) THEN Len(a) ELSE Len(b)
      diff == {i \in 1..n : Ch(a, i) # Ch(b, i)}
  IN  IF diff = {} THEN Len(a) < Len(b)
      ELSE CharRank(Ch(a, Min(diff))) < CharRank(Ch(b, Min(diff)))

\* the rules enumerated in the order of their insertion
RECURSIVE getCategoryRules_ById(_)
getCategoryRules_ById(rules) ==
  IF rules = {} THEN << >>
  ELSE LET first == CHOOSE r \in rules : \A o \in rules : r.id <= o.id
       IN  <<first>> \o getCategoryRules_ById(rules \ {first})

\* db.select().from(categoryRules).orderBy(asc(categoryRules.pattern))
RECURSIVE getCategoryRules(_)
getCategoryRules(rules) ==
  IF rules = {} THEN << >>
  ELSE LET first == CHOOSE r \in rules :
                      \A o \in rules \ {r} : StrLess(r.pattern, o.pattern)
       IN  <<first>> \o getCategoryRules(rules \ {first})

\* the table without the unique constraint
UniqueViolation_Never(rules, pattern) == FALSE

\* the unique constraint on category_rules.pattern: error code 23505
UniqueViolation(rules, pattern) == \E r \in rules : r.pattern = pattern

\* db.insert(categoryRules).values(rule).returning(), when it does not throw
insertCategoryRule(rules, id, rule) ==
  rules \cup {[id |-> id, pattern |-> rule.pattern, category |-> rule.category]}

\* db.delete(categoryRules).where(eq(categoryRules.id, id))
deleteCategoryRule(rules, id) == {r \in rules : r.id # id}

-----------------------------------------------------------------------------
(* Categorization engine                                                    *)

CATEGORIES ==
  << "Coffee", "Groceries", "Dining", "Transportation", "Gas",
     "Entertainment", "Shopping", "Healthcare", "Fitness", "Utilities",
     "Insurance", "Subscriptions", "Travel", "Education", "Personal Care",
     "Pets", "Home", "Transfer", "Cash Withdrawal", "Fees",
     "Income", "Other" >>

\* Object.entries(EXTENDED_PATTERNS): the categories in the order written,
\* each with its substrings in the order written
EXTENDED_PATTERNS ==
  <<
     [category |-> "Coffee", patterns |-> <<
         "STARBUCKS", "COFFEE", "DUNKIN", "PEET", "CARIBOU", "COSTA",
         "TIM HORTON", "PHILZ", "BLUE BOTTLE", "CAFE", "ESPRESSO",
         "DUTCH BROS", "PEETS" >>],
     [category |-> "Groceries", patterns |-> <<
         "WHOLE FOODS", "SAFEWAY", "TRADER JOE", "KROGER", "WALMART",
         "COSTCO", "ALDI", "PUBLIX", "WEGMANS", "HEB", "MARKET", "GROCERY",
         "SUPERMARKET", "FOOD LION", "GIANT", "HARRIS TEETER", "SPROUTS",
         "FRESH", "FOODS", "INSTACART" >>],
     [category |-> "Dining", patterns |-> <<
         "RESTAURANT", "PIZZA", "MCDONALD", "CHIPOTLE", "SUBWAY", "BURGER",
         "TACO", "WENDY", "CHICK-FIL", "PANERA", "OLIVE GARDEN", "APPLEBEE",
         "IHOP", "DENNY", "GRUBHUB", "DOORDASH", "UBEREATS", "POSTMATES",
         "SEAMLESS", "YELP EAT", "CHILI", "OUTBACK", "RED ROBIN",
         "BUFFALO WILD", "FIVE GUYS", "IN-N-OUT", "SHAKE SHACK", "WINGSTOP",
         "DOMINO", "PAPA JOHN", "LITTLE CAESAR", "KFC", "POPEYE",
         "PANDA EXPRESS", "NOODLES", "SUSHI", "RAMEN", "PHO", "THAI",
         "INDIAN", "CHINESE", "MEXICAN", "ITALIAN", "GRILL", "BBQ",
         "STEAKHOUSE", "DINER", "BISTRO", "EATERY", "KITCHEN", "CANTINA",
         "TAVERN", "PUB", "BAR & GRILL" >>],
     [category |-> "Transportation", patterns |-> <<
         "UBER", "LYFT", "TAXI", "CAB", "METRO", "TRANSIT", "BUS", "TRAIN",
         "AMTRAK", "PARKING", "TOLL", "BIRD", "LIME", "SCOOTER" >>],
     [category |-> "Gas", patterns |-> <<
         "SHELL", "CHEVRON", "EXXON", "BP ", "MOBIL", "TEXACO", "ARCO",
         "CITGO", "SUNOCO", "MARATHON", "VALERO", "PHILLIPS 66", "GAS",
         "FUEL", "PETRO", "76 ", "SPEEDWAY", "WAWA", "QUIKTRIP", "RACETRAC",
         "CIRCLE K" >>],
     [category |-> "Entertainment", patterns |-> <<
         "NETFLIX", "SPOTIFY", "HULU", "DISNEY", "HBO", "AMAZON PRIME",
         "APPLE TV", "YOUTUBE", "PEACOCK", "PARAMOUNT", "MOVIE", "CINEMA",
         "THEATRE", "THEATER", "CONCERT", "TICKETMASTER", "STUBHUB",
         "EVENTBRITE", "STEAM", "PLAYSTATION", "XBOX", "NINTENDO", "GAMING",
         "AMC ", "REGAL", "FANDANGO", "TWITCH", "CRUNCHYROLL", "ESPN" >>],
     [category |-> "Shopping", patterns |-> <<
         "TARGET", "AMAZON", "EBAY", "ETSY", "BEST BUY", "APPLE STORE",
         "IKEA", "HOME DEPOT", "LOWES", "BED BATH", "MACYS", "NORDSTROM",
         "KOHLS", "JC PENNEY", "SEPHORA", "ULTA", "NIKE", "ADIDAS", "GAP",
         "OLD NAVY", "ZARA", "H&M", "FOREVER 21", "TJ MAXX", "ROSS",
         "MARSHALLS", "DOLLAR", "STAPLES", "OFFICE DEPOT", "MICHAELS",
         "HOBBY LOBBY", "JOANN", "LULULEMON", "FOOT LOCKER", "FINISH LINE",
         "DICKS SPORTING", "REI ", "BASS PRO", "CABELAS" >>],
     [category |-> "Healthcare", patterns |-> <<
         "PHARMACY", "CVS", "WALGREENS", "RITE AID", "DOCTOR", "HOSPITAL",
         "MEDICAL", "DENTAL", "VISION", "OPTOMETRY", "CLINIC", "HEALTH",
         "URGENT CARE", "KAISER", "BLUE CROSS", "AETNA", "UNITED HEALTH",
         "CIGNA", "QUEST DIAG", "LABCORP", "THERAPY", "COUNSELING",
         "MENTAL HEALTH", "CHIROPRACT" >>],
     [category |-> "Fitness", patterns |-> <<
         "GYM", "FITNESS", "PLANET FITNESS", "LA FITNESS",
         "24 HOUR FITNESS", "EQUINOX", "ORANGETHEORY", "CROSSFIT", "YOGA",
         "PELOTON", "CLASSPASS", "ANYTIME FITNESS", "GOLD GYM", "LIFETIME",
         "YMCA", "YWCA" >>],
     [category |-> "Utilities", patterns |-> <<
         "ELECTRIC", "GAS BILL", "WATER", "SEWER", "TRASH", "WASTE",
         "COMCAST", "XFINITY", "VERIZON", "AT&T", "T-MOBILE", "SPRINT",
         "INTERNET", "CABLE", "PG&E", "SOUTHERN CALIFORNIA EDISON",
         "CON EDISON", "DUKE ENERGY", "DOMINION", "NATIONAL GRID" >>],
     [category |-> "Insurance", patterns |-> <<
         "INSURANCE", "GEICO", "STATE FARM", "ALLSTATE", "PROGRESSIVE",
         "LIBERTY MUTUAL", "FARMERS", "USAA", "NATIONWIDE", "AFLAC",
         "METLIFE", "PRUDENTIAL" >>],
     [category |-> "Subscriptions", patterns |-> <<
         "SUBSCRIPTION", "MEMBERSHIP", "ADOBE", "MICROSOFT", "DROPBOX",
         "ICLOUD", "GOOGLE STORAGE", "GOOGLE ONE", "MEDIUM", "SUBSTACK",
         "PATREON", "GITHUB", "NOTION", "SLACK", "ZOOM", "CANVA",
         "GRAMMARLY", "LASTPASS", "1PASSWORD", "DASHLANE", "VPN", "NORDVPN",
         "EXPRESSVPN", "AUDIBLE", "KINDLE" >>],
     [category |-> "Travel", patterns |-> <<
         "AIRLINE", "UNITED", "DELTA", "AMERICAN AIRLINES", "SOUTHWEST",
         "JETBLUE", "SPIRIT", "FRONTIER", "HOTEL", "MARRIOTT", "HILTON",
         "HYATT", "AIRBNB", "VRBO", "BOOKING", "EXPEDIA", "KAYAK",
         "TRIVAGO", "HERTZ", "ENTERPRISE", "AVIS", "BUDGET", "NATIONAL CAR",
         "ALAMO", "TURO", "CRUISE" >>],
     [category |-> "Education", patterns |-> <<
         "UNIVERSITY", "COLLEGE", "SCHOOL", "TUITION", "COURSERA", "UDEMY",
         "SKILLSHARE", "MASTERCLASS", "LINKEDIN LEARNING", "DUOLINGO",
         "BOOKS", "TEXTBOOK", "CHEGG", "QUIZLET", "KHAN ACADEMY",
         "CODECADEMY", "UDACITY", "EDX", "PLURALSIGHT" >>],
     [category |-> "Personal Care", patterns |-> <<
         "SALON", "BARBER", "HAIR", "SPA", "MASSAGE", "NAIL", "BEAUTY",
         "WAXING", "LASER", "DERMATOLOG", "SKINCARE", "COSMETIC" >>],
     [category |-> "Pets", patterns |-> <<
         "PETCO", "PETSMART", "VET", "VETERINARY", "PET SUPPLIES", "CHEWY",
         "BANFIELD", "PET FOOD", "GROOMING" >>],
     [category |-> "Home", patterns |-> <<
         "RENT", "MORTGAGE", "PROPERTY", "MAINTENANCE", "REPAIR", "PLUMBER",
         "ELECTRICIAN", "CLEANING", "MAID", "HOUSEKEEPING", "LANDLORD",
         "APARTMENT", "CONDO", "HOA" >>],
     [category |-> "Transfer", patterns |-> <<
         "VENMO", "PAYPAL", "ZELLE", "CASH APP", "WIRE", "ACH", "TRANSFER",
         "SEND MONEY", "PAYMENT TO", "PAYMENT FROM" >>],
     [category |-> "Cash Withdrawal", patterns |-> <<
         "ATM", "CASH", "WITHDRAWAL", "CASH BACK" >>],
     [category |-> "Fees", patterns |-> <<
         "FEE", "CHARGE", "OVERDRAFT", "LATE FEE", "SERVICE CHARGE",
         "MAINTENANCE FEE", "MONTHLY FEE", "ANNUAL FEE", "INTEREST CHARGE",
         "FINANCE CHARGE" >>],
     [category |-> "Income", patterns |-> <<
         "PAYROLL", "SALARY", "DEPOSIT", "DIRECT DEP", "INTEREST",
         "DIVIDEND", "REFUND", "REIMBURSEMENT", "BONUS", "COMMISSION",
         "INCOME", "CREDIT", "CASHBACK", "REWARD" >>],
     [category |-> "Other", patterns |-> <<
          >>]
  >>

IsCategory(c) == \E i \in 1..Len(CATEGORIES) : CATEGORIES[i] = c

\* A CategorizationResult; suggestRule is FALSE where the code leaves it unset
Result(category, confidence, method, normalizedMerchant, suggestRule) ==
  [isNull |-> FALSE, category |-> category, confidence |-> confidence,
   method |-> method, normalizedMerchant |-> normalizedMerchant,
   suggestRule |-> suggestRule]

\* the null that categorizeByPattern returns
Null == [isNull |-> TRUE]

\* the fallback result with the merchant left empty
Fallback_NoMerchant(normalizedMerchant) ==
  Result("Other", "low", "fallback", "", TRUE)

Fallback(normalizedMerchant) ==
  Result("Other", "low", "fallback", normalizedMerchant, TRUE)

\* the index of the first rule of the enumeration whose upper-cased pattern
\* the upper-cased merchant includes; 0 when there is none
FirstRuleMatch(upperDesc, rules) ==
  LET hits == {k \in 1..Len(rules) :
                 includes(upperDesc, toUpperCase(rules[k].pattern))}
  IN  IF hits = {} THEN 0 ELSE Min(hits)

\* the category of the first entry of EXTENDED_PATTERNS, in the order of
\* Object.entries, with a pattern that the upper-cased merchant includes;
\* "" when there is none
FirstPatternMatch(upperDesc) ==
  LET hits == {c \in 1..Len(EXTENDED_PATTERNS) :
                 \E p \in 1..Len(EXTENDED_PATTERNS[c].patterns) :
                    includes(upperDesc, EXTENDED_PATTERNS[c].patterns[p])}
  IN  IF hits = {} THEN "" ELSE EXTENDED_PATTERNS[Min(hits)].category

\* ---- the descriptions the model feeds to the engine ----
Q50 == "QQQQQQQQQQQQQQQQQQQQQQQQQQQQQQQQQQQQQQQQQQQQQQQQQQ"
Q51 == Q50 \o "Q"

JoesCoffee == "SQ *JOE'S COFFEE #4521 SAN FRANCISCO CA"

Descriptions ==
  { JoesCoffee,
    "TST*SQ *JOE", "ACME LLC INC", "starbucks", "Venmo Coffee",
    "SQ *ZZYZX", "JOE", "ZZ", "XQZ", "POS XQZ", Q50, Q51 }

\* descriptions built from processor prefixes, merchant names and trailing
\* noise, for the normalizer on its own
Heads == {"", "SQ *", "TST*", "pos ", "TST*SQ *", "PAYPAL *"}
Cores == {"JOE'S COFFEE", "starbucks", "ACME", "KROGER"}
Tails == {"", " LLC", " LLC INC", " #4521", " SAN FRANCISCO CA",
          " #4521 SAN FRANCISCO CA", " AUSTIN TX 78701"}

NormalizerInputs ==
  Descriptions \cup {h \o c \o t : h \in Heads, c \in Cores, t \in Tails}

\* normalizeMerchant on the model's descriptions, evaluated once
normalizeMerchantTable ==
  Array([d \in NormalizerInputs |-> normalizeMerchant(d)])

normalized(description) ==
  IF description \in NormalizerInputs THEN normalizeMerchantTable[description]
  ELSE normalizeMerchant(description)

\* the scan of EXTENDED_PATTERNS on the model's merchants, evaluated once
FirstPatternMatchTable ==
  Array([d \in Descriptions |->
           FirstPatternMatch(toUpperCase(normalizeMerchantTable[d]))])

\* categorizeByPattern consulting the built-in table before the stored rules
categorizeByPattern_TableFirst(description, ruleRows) ==
  LET normalizedMerchant == normalized(description)
      upperDesc == toUpperCase(normalizedMerchant)
      rules == getCategoryRules(ruleRows)
      k == FirstRuleMatch(upperDesc, rules)
      category == IF description \in Descriptions
                  THEN FirstPatternMatchTable[description]
                  ELSE FirstPatternMatch(upperDesc)
      upperRaw == toUpperCase(description)
  IN  IF category # ""
        THEN Result(category, "high", "pattern", normalizedMerchant, FALSE)
      ELSE IF k # 0
        THEN Result(rules[k].category, "high", "rule", normalizedMerchant, FALSE)
      ELSE IF startsWith(upperRaw, "SQ *") \/ startsWith(upperRaw, "SQU*")
        THEN Null
      ELSE IF startsWith(upperRaw, "TST*") \/ startsWith(upperRaw, "TOAST*")
        THEN Result("Dining", "medium", "pattern", normalizedMerchant, FALSE)
      ELSE Null

\* categorizeByPattern consulting the payment-processor prefixes before the
\* built-in table
categorizeByPattern_ProcessorFirst(description, ruleRows) ==
  LET normalizedMerchant == normalized(description)
      upperDesc == toUpperCase(normalizedMerchant)
      rules == getCategoryRules(ruleRows)
      k == FirstRuleMatch(upperDesc, rules)
      category == IF description \in Descriptions
                  THEN FirstPatternMatchTable[description]
                  ELSE FirstPatternMatch(upperDesc)
      upperRaw == toUpperCase(description)
  IN  IF k # 0
        THEN Result(rules[k].category, "high", "rule", normalizedMerchant, FALSE)
      ELSE IF startsWith(upperRaw, "SQ *") \/ startsWith(upperRaw, "SQU*")
        THEN Null
      ELSE IF startsWith(upperRaw, "TST*") \/ startsWith(upperRaw, "TOAST*")
        THEN Result("Dining", "medium", "pattern", normalizedMerchant, FALSE)
      ELSE IF category # ""
        THEN Result(category, "high", "pattern", normalizedMerchant, FALSE)
      ELSE Null

categorizeByPattern(description, ruleRows) ==
  LET normalizedMerchant == normalized(description)
      upperDesc == toUpperCase(normalizedMerchant)
      rules == getCategoryRules(ruleRows)
      k == FirstRuleMatch(upperDesc, rules)
      category == IF description \in Descriptions
                  THEN FirstPatternMatchTable[description]
                  ELSE FirstPatternMatch(upperDesc)
      upperRaw == toUpperCase(description)
  IN  IF k # 0
        THEN Result(rules[k].category, "high", "rule", normalizedMerchant, FALSE)
      ELSE IF category # ""
        THEN Result(category, "high", "pattern", normalizedMerchant, FALSE)
      ELSE IF startsWith(upperRaw, "SQ *") \/ startsWith(upperRaw, "SQU*")
        THEN Null
      ELSE IF startsWith(upperRaw, "TST*") \/ startsWith(upperRaw, "TOAST*")
        THEN Result("Dining", "medium", "pattern", normalizedMerchant, FALSE)
      ELSE Null

\* ---- the hosted model, stubbed ----
\* What the stub decides for a merchant: a category of the list, a name that
\* is not in the list, or nothing.
AIDecision(normalizedMerchant) ==
  CASE normalizedMerchant = "XQZ" -> "Shopping"
    [] normalizedMerchant = "ZZ" -> "Food"
    [] normalizedMerchant = "ZZYZX" -> ""
    [] OTHER -> "Groceries"

ModelBehaviours == {"answers", "throws", "unparsable"}

\* process.env.OPENAI_API_KEY set or not, and how the hosted model behaves
Envs ==
  {[OPENAI_API_KEY |-> FALSE, model |-> "answers"]}
    \cup {[OPENAI_API_KEY |-> TRUE, model |-> m] : m \in ModelBehaviours}

\* openai.chat.completions.create of categorizeByAI: the call throws, or
\* returns the content of the first choice
ChatSingle(e, description, normalizedMerchant) ==
  CASE e.model = "throws" -> [threw |-> TRUE, content |-> ""]
    [] e.model = "unparsable" ->
         [threw |-> FALSE,
          content |-> "Category: " \o AIDecision(normalizedMerchant)]
    [] OTHER -> [threw |-> FALSE, content |-> AIDecision(normalizedMerchant)]

\* how the hosted model behaves at the k-th request of a call: an
\* environment may script its requests one by one ("short" is a reply with
\* one name less than merchants), otherwise it behaves the same at each
ModelAt(e, k) ==
  IF "script" \in DOMAIN e /\ k <= Len(e.script) THEN e.script[k]
  ELSE e.model

Replying(e, k) ==
  [OPENAI_API_KEY |-> e.OPENAI_API_KEY, model |-> ModelAt(e, k)]

\* openai.chat.completions.create of batchCategorize for one group: the
\* content is a JSON array with one name per merchant, or text that is no JSON
ChatBatch(e, merchants) ==
  CASE e.model = "throws" -> [threw |-> TRUE, kind |-> "none", items |-> << >>]
    [] e.model = "unparsable" ->
         [threw |-> FALSE, kind |-> "text", items |-> << >>]
    [] e.model = "short" ->
         [threw |-> FALSE, kind |-> "array",
          items |-> [j \in 1..(Len(merchants) - 1) |->
                       AIDecision(merchants[j])]]
    [] OTHER ->
         [threw |-> FALSE, kind |-> "array",
          items |-> [j \in 1..Len(merchants) |-> AIDecision(merchants[j])]]

\* JSON.parse(content) as string[]: throws on text that is no JSON
JSONparse(response) ==
  IF response.kind = "array"
  THEN [threw |-> FALSE, value |-> response.items]
  ELSE [threw |-> TRUE, value |-> << >>]

\* A call of the engine yields the value returned and the number of requests
\* it sent to the hosted model.
Outcome(result, requests) == [result |-> result, requests |-> requests]

categorizeByAI(e, description, normalizedMerchant) ==
  IF ~e.OPENAI_API_KEY THEN Outcome(Fallback(normalizedMerchant), 0)
  ELSE LET response == ChatSingle(e, description, normalizedMerchant)
           aiCategory == IF trim(response.content) = "" THEN "Other"
                         ELSE trim(response.content)
           validCategory == IF IsCategory(aiCategory) THEN aiCategory
                            ELSE "Other"
       IN  IF response.threw THEN Outcome(Fallback(normalizedMerchant), 1)
           ELSE Outcome(Result(validCategory,
                               IF validCategory = "Other" THEN "low"
                               ELSE "medium",
                               "ai", normalizedMerchant, TRUE), 1)

smartCategorize(e, description, ruleRows) ==
  LET patternResult == categorizeByPattern(description, ruleRows)
  IN  IF ~patternResult.isNull THEN Outcome(patternResult, 0)
      ELSE categorizeByAI(e, description, normalized(description))

batchSize == 20

\* the indices i, in ascending order, whose pattern result is null
RECURSIVE NeedsAI(_, _)
NeedsAI(patternResults, i) ==
  IF i > Len(patternResults) THEN << >>
  ELSE IF patternResults[i].isNull
       THEN <<i>> \o NeedsAI(patternResults, i + 1)
       ELSE NeedsAI(patternResults, i + 1)

\* BatchCategory without the check against CATEGORIES
BatchCategory_Unvalidated(categories, j) ==
  IF j <= Len(categories) /\ categories[j] # ""
  THEN categories[j] ELSE "Other"

\* categories[j] && CATEGORIES.includes(categories[j]) ? categories[j] : 'Other'
BatchCategory(categories, j) ==
  IF j <= Len(categories) /\ categories[j] # "" /\ IsCategory(categories[j])
  THEN categories[j] ELSE "Other"

\* the result stored for position j of a group whose reply parsed
BatchItem(categories, j, normalizedMerchant) ==
  LET category == BatchCategory(categories, j)
  IN  Result(category, IF category = "Other" THEN "low" ELSE "medium",
             "ai", normalizedMerchant, TRUE)

\* GroupItem treating a reply that does not parse as a list of no names
GroupItem_ParseFailureIgnored(parsed, j, normalizedMerchant) ==
  IF parsed.threw THEN BatchItem(<< >>, j, normalizedMerchant)
  ELSE BatchItem(parsed.value, j, normalizedMerchant)

\* the body of the inner try/catch for item j of a group: the result built
\* from the parsed reply, or the fallback when JSON.parse threw
GroupItem(parsed, j, normalizedMerchant) ==
  IF parsed.threw THEN Fallback(normalizedMerchant)
  ELSE BatchItem(parsed.value, j, normalizedMerchant)

\* the outer catch with its fallbacks left out
FillFallbacks_None(descriptions, needsAI, results) ==
  [idx \in 1..Len(descriptions) |-> results[idx]]

\* the outer catch of batchCategorize: a fallback for every item of needsAI
\* that has no result yet
FillFallbacks(descriptions, needsAI, results) ==
  [idx \in 1..Len(descriptions) |->
     IF (\E j \in 1..Len(needsAI) : needsAI[j] = idx) /\ results[idx].isNull
     THEN Fallback(normalized(descriptions[idx]))
     ELSE results[idx]]

\* the loop "for (let i = 0; i < needsAI.length; i += batchSize)", from
\* offset i on, with the results array as filled so far and the requests sent
RECURSIVE BatchLoop(_, _, _, _, _, _)
BatchLoop(e, descriptions, needsAI, i, results, requests) ==
  IF i >= Len(needsAI) THEN Outcome(results, requests)
  ELSE
    LET end == IF i + batchSize < Len(needsAI) THEN i + batchSize
               ELSE Len(needsAI)
        batch == SubSeq(needsAI, i + 1, end)
        merchants ==
          [j \in 1..Len(batch) |-> normalized(descriptions[batch[j]])]
        response == ChatBatch(Replying(e, requests + 1), merchants)
        parsed == JSONparse(response)
        Position(idx) == CHOOSE j \in 1..Len(batch) : batch[j] = idx
        InBatch(idx) == \E j \in 1..Len(batch) : batch[j] = idx
    IN  IF response.threw
        THEN Outcome(FillFallbacks(descriptions, needsAI, results),
                     requests + 1)
        ELSE Then(
               Array([idx \in 1..Len(descriptions) |->
                  IF ~InBatch(idx) THEN results[idx]
                  ELSE GroupItem(parsed, Position(idx),
                                 normalized(descriptions[idx]))]),
               LAMBDA filled :
                 BatchLoop(e, descriptions, needsAI, i + batchSize, filled,
                           requests + 1))

batchCategorize(e, descriptions, ruleRows) ==
  LET patternResults ==
        Array([i \in 1..Len(descriptions) |->
                 categorizeByPattern(descriptions[i], ruleRows)])
      needsAI == NeedsAI(patternResults, 1)
  IN  IF Len(needsAI) > 0 /\ e.OPENAI_API_KEY
      THEN BatchLoop(e, descriptions, needsAI, 0, patternResults, 0)
      ELSE Outcome([i \in 1..Len(descriptions) |->
                      IF patternResults[i].isNull
                      THEN Fallback(normalized(descriptions[i]))
                      ELSE patternResults[i]],
                   0)

\* what learnFromCorrection returns; hasPattern is FALSE where the code
\* leaves pattern unset
LearnResult(ruleCreated, hasPattern, pattern) ==
  [ruleCreated |-> ruleCreated, hasPattern |-> hasPattern, pattern |-> pattern]

\* the length guard with its upper limit off by one
TooUnspecific_OffByOne(normalizedMerchant) ==
  Len(normalizedMerchant) < 3 \/ Len(normalizedMerchant) >= 50

\* "Only create rules for normalized merchants that are reasonably specific"
TooUnspecific(normalizedMerchant) ==
  Len(normalizedMerchant) < 3 \/ Len(normalizedMerchant) > 50

\* learnFromCorrection: the value returned, the rule store afterwards, and
\* whether an insert was attempted (an attempt draws from the id serial)
learnFromCorrection(ruleRows, id, originalDescription, correctedCategory, createRule) ==
  LET normalizedMerchant == normalized(originalDescription)
  IN  IF ~createRule
        THEN [returned |-> LearnResult(FALSE, FALSE, ""), rules |-> ruleRows,
              attempted |-> FALSE]
      ELSE IF TooUnspecific(normalizedMerchant)
        THEN [returned |-> LearnResult(FALSE, FALSE, ""), rules |-> ruleRows,
              attempted |-> FALSE]
      ELSE IF UniqueViolation(ruleRows, normalizedMerchant)
        THEN [returned |-> LearnResult(FALSE, TRUE, normalizedMerchant),
              rules |-> ruleRows, attempted |-> TRUE]
      ELSE [returned |-> LearnResult(TRUE, TRUE, normalizedMerchant),
            rules |-> insertCategoryRule(ruleRows, id,
                        [pattern |-> normalizedMerchant,
                         category |-> correctedCategory]),
            attempted |-> TRUE]

-----------------------------------------------------------------------------
(* Raw SQL: the rewrite of executeRawQuery, and the database behind it       *)

\* the index after the run of whitespace that starts at i
SkipSpaces(q, i) ==
  LET stops == {j \in i..Len(q) : ~IsSpace(Ch(q, j))}
  IN  IF stops = {} THEN Len(q) + 1 ELSE Min(stops)

\* /FROM\s+transactions\b/i matched at index i: the index after the match,
\* 0 when there is no match at i
MatchFromTransactions(q, i) ==
  IF /\ i + 4 <= Len(q)
     /\ toUpperCase(SubSeq(q, i, i + 3)) = "FROM"
     /\ IsSpace(Ch(q, i + 4))
  THEN Then(SkipSpaces(q, i + 4), LAMBDA j :
         IF /\ j + 11 <= Len(q)
            /\ toUpperCase(SubSeq(q, j, j + 11)) = "TRANSACTIONS"
            /\ (j + 12 > Len(q) \/ ~IsWordChar(Ch(q, j + 12)))
         THEN j + 12 ELSE 0)
  ELSE 0

\* /FROM\s+transactions\s+WHERE/i matched at index i: the index after the
\* match, 0 when there is no match at i
MatchFromTransactionsWhere(q, i) ==
  IF /\ i + 4 <= Len(q)
     /\ toUpperCase(SubSeq(q, i, i + 3)) = "FROM"
     /\ IsSpace(Ch(q, i + 4))
  THEN Then(SkipSpaces(q, i + 4), LAMBDA j :
         IF /\ j + 12 <= Len(q)
            /\ toUpperCase(SubSeq(q, j, j + 11)) = "TRANSACTIONS"
            /\ IsSpace(Ch(q, j + 12))
         THEN Then(SkipSpaces(q, j + 12), LAMBDA w :
                IF /\ w + 4 <= Len(q)
                   /\ toUpperCase(SubSeq(q, w, w + 4)) = "WHERE"
                THEN w + 5 ELSE 0)
         ELSE 0)
  ELSE 0

\* query.replace(regex, replacement) with a global regex whose match at index
\* i ends before Match(i): every match is replaced (two matches never overlap:
\* each starts with FROM, and no match has a second FROM inside)
ReplaceAll(q, Match(_), replacement) ==
  Then({<<i, Match(i)>> : i \in {j \in 1..Len(q) : Match(j) # 0}},
       LAMBDA matches :
         IF matches = {} THEN q
         ELSE Join(LAMBDA i :
                     IF \E m \in matches : m[1] = i THEN replacement
                     ELSE IF \E m \in matches : m[1] < i /\ i < m[2] THEN ""
                     ELSE Ch(q, i),
                   1, Len(q)))

\* regex.test(query)
Test(q, Match(_)) == \E i \in 1..Len(q) : Match(i) # 0

\* the statement executeRawQuery sends for a query that starts with SELECT
secureQuery(userId, query) ==
  LET hasWhere ==
        Test(query, LAMBDA i : MatchFromTransactionsWhere(query, i))
  IN  IF Test(query, LAMBDA i : MatchFromTransactions(query, i))
      THEN IF hasWhere
           THEN ReplaceAll(query,
                  LAMBDA i : MatchFromTransactionsWhere(query, i),
                  "FROM transactions WHERE user_id = '" \o userId \o "' AND")
           ELSE ReplaceAll(query,
                  LAMBDA i : MatchFromTransactions(query, i),
                  "FROM transactions WHERE user_id = '" \o userId \o "'")
      ELSE query

\* the check looking for SELECT anywhere in the query
StartsWithSelect_Anywhere(query) == includes(toUpperCase(trim(query)), "SELECT")

\* normalizedQuery.startsWith('SELECT')
StartsWithSelect(query) == startsWith(toUpperCase(trim(query)), "SELECT")

\* ---- the callers and the queries the model feeds to the tool ----
Users == {"user_42", "user_7"}

Queries ==
  { "SELECT * FROM transactions",
    "  select * from transactions where amount < 0",
    "SELECT * FROM transactions WHERE amount < 0 OR amount > 0",
    "SELECT * FROM transactions WHERE category = 'Coffee' AND amount < 0",
    "SELECT * FROM public.transactions",
    "SELECT * FROM transactions UNION SELECT * FROM transactions WHERE amount > 0",
    "SELECT * FROM transactions t WHERE t.amount < 0",
    "SELECT category, SUM(amount) FROM transactions GROUP BY category",
    "SELECT 1",
    "SELECT 1; DELETE FROM transactions",
    "DROP TABLE transactions",
    "  delete from transactions",
    "Update transactions SET category = 'Other'",
    "INSERT INTO transactions (user_id) VALUES ('user_7')",
    "DELETE FROM transactions; SELECT 1" }

\* the checks and the rewrite on the model's queries, evaluated once
StartsWithSelectTable == Array([q \in Queries |-> StartsWithSelect(q)])
secureQueryTable ==
  Array([u \in Users |->
     Array([q \in {x \in Queries : StartsWithSelectTable[x]} |->
              secureQuery(u, q)])])

startsWithSelect(query) ==
  IF query \in Queries THEN StartsWithSelectTable[query]
  ELSE StartsWithSelect(query)

secured(userId, query) ==
  IF userId \in Users /\ query \in DOMAIN secureQueryTable[userId]
  THEN secureQueryTable[userId][query]
  ELSE secureQuery(userId, query)

\* ---- the database, for the statements the model sends ----
\* A row of transactions is [id, user_id, description, amount, category].
\* The database understands
\*   SELECT * FROM [public.]transactions [WHERE cond] [UNION SELECT ...]
\*   SELECT 1
\*   DELETE FROM [public.]transactions [WHERE cond]
\* where cond is a chain of comparisons "column op literal" joined by AND
\* and OR, AND binding tighter; any other text is an error.

\* the tokens of a statement: its maximal runs of non-whitespace
Tokens(q) ==
  LET End(b) == Min({j \in b..Len(q) : j = Len(q) \/ IsSpace(Ch(q, j + 1))})
  IN  Then({i \in 1..Len(q) :
              ~IsSpace(Ch(q, i)) /\ (i = 1 \/ IsSpace(Ch(q, i - 1)))},
           LAMBDA starts :
             Array([k \in 1..Cardinality(starts) |->
                      CHOOSE token \in
                        {SubSeq(q, b, End(b)) :
                           b \in {c \in starts :
                                    Cardinality({t \in starts : t <= c}) = k}} :
                        TRUE]))

\* the statements of a text: its pieces between semicolons that are not blank
Statements(q) ==
  Then({0} \cup {i \in 1..Len(q) : Ch(q, i) = ";"} \cup {Len(q) + 1},
       LAMBDA cuts :
  Then({SubSeq(q, c + 1, Min({d \in cuts : d > c}) - 1) :
          c \in cuts \ {Len(q) + 1}},
       LAMBDA pieces :
  Then({c \in cuts \ {Len(q) + 1} :
          ~AllSpaces(SubSeq(q, c + 1, Min({d \in cuts : d > c}) - 1))},
       LAMBDA begins :
         Array([k \in 1..Cardinality(begins) |->
                  CHOOSE piece \in
                    {SubSeq(q, b + 1, Min({d \in cuts : d > b}) - 1) :
                       b \in {c \in begins :
                                Cardinality({t \in begins : t <= c}) = k}} :
                    TRUE]))))

\* keywords and unquoted identifiers are read without regard to case
Fold(token) == IF Ch(token, 1) = "'" THEN token ELSE toUpperCase(token)

\* a text as the database reads it: the folded tokens of each of its
\* statements
Parse(text) ==
  Then(Statements(text), LAMBDA statements :
    Array([k \in 1..Len(statements) |->
             Then(Tokens(statements[k]), LAMBDA t :
               Array([i \in 1..Len(t) |-> Fold(t[i])]))]))

TextColumns == {"USER_ID", "DESCRIPTION", "CATEGORY"}
NumberColumns == {"ID", "AMOUNT"}

IsStringLiteral(t) ==
  /\ Len(t) >= 2
  /\ Ch(t, 1) = "'"
  /\ Ch(t, Len(t)) = "'"
  /\ \A i \in 2..(Len(t) - 1) : Ch(t, i) # "'"

IsNumberLiteral(t) == Len(t) >= 1 /\ AllDigits(t)

DigitValue(c) == CHOOSE d \in 0..9 : Ch(Digits, d + 1) = c

RECURSIVE NumberValue(_)
NumberValue(t) ==
  IF Len(t) = 0 THEN 0
  ELSE 10 * NumberValue(SubSeq(t, 1, Len(t) - 1)) + DigitValue(Ch(t, Len(t)))

ComparisonValid(column, op, literal) ==
  \/ /\ column \in TextColumns
     /\ op = "="
     /\ IsStringLiteral(literal)
  \/ /\ column \in NumberColumns
     /\ op \in {"=", "<", ">"}
     /\ IsNumberLiteral(literal)

ColumnValue(row, column) ==
  CASE column = "USER_ID" -> row.user_id
    [] column = "DESCRIPTION" -> row.description
    [] column = "CATEGORY" -> row.category
    [] column = "ID" -> row.id
    [] column = "AMOUNT" -> row.amount

ComparisonHolds(row, column, op, literal) ==
  IF column \in TextColumns
  THEN ColumnValue(row, column) = SubSeq(literal, 2, Len(literal) - 1)
  ELSE CASE op = "=" -> ColumnValue(row, column) = NumberValue(literal)
         [] op = "<" -> ColumnValue(row, column) < NumberValue(literal)
         [] op = ">" -> ColumnValue(row, column) > NumberValue(literal)

\* cond is comparison (AND|OR comparison)*, four tokens per link
CondValid(cond) ==
  /\ Len(cond) % 4 = 3
  /\ \A k \in 1..((Len(cond) + 1) \div 4) :
        /\ ComparisonValid(cond[4 * k - 3], cond[4 * k - 2], cond[4 * k - 1])
        /\ 4 * k <= Len(cond) => cond[4 * k] \in {"AND", "OR"}

\* a disjunction of conjunctions: some comparison holds together with all the
\* comparisons chained to it by AND
CondHolds(row, cond) ==
  LET m == (Len(cond) + 1) \div 4
      Holds(k) == ComparisonHolds(row, cond[4 * k - 3], cond[4 * k - 2],
                                  cond[4 * k - 1])
      Chained(a, b) ==
        \A k \in (IF a < b THEN a ELSE b)..((IF a < b THEN b ELSE a) - 1) :
           cond[4 * k] = "AND"
  IN  \E i \in 1..m : \A j \in 1..m : Chained(i, j) => Holds(j)

IsTransactionsTable(t) ==
  t \in {"TRANSACTIONS", "PUBLIC.TRANSACTIONS"}

Failed == [ok |-> FALSE, rows |-> {}]

\* the tokens t[1..n] after "FROM table": nothing, or WHERE cond
Selection(t, table) ==
  IF Len(t) = 0 THEN [ok |-> TRUE, rows |-> table]
  ELSE IF t[1] = "WHERE" /\ CondValid(Tail(t))
       THEN [ok |-> TRUE, rows |-> {r \in table : CondHolds(r, Tail(t))}]
       ELSE Failed

\* SELECT * FROM table [WHERE cond], or SELECT 1
SelectCore(t, table) ==
  IF Len(t) = 2 /\ t[1] = "SELECT" /\ t[2] = "1"
    THEN [ok |-> TRUE, rows |-> {[one |-> 1]}]
  ELSE IF /\ Len(t) >= 4
          /\ t[1] = "SELECT"
          /\ t[2] = "*"
          /\ t[3] = "FROM"
          /\ IsTransactionsTable(t[4])
    THEN Selection(SubSeq(t, 5, Len(t)), table)
  ELSE Failed

\* select UNION select UNION ...
SelectStatement(t, table) ==
  Then({0} \cup {i \in 1..Len(t) : t[i] = "UNION"} \cup {Len(t) + 1},
       LAMBDA cuts :
  Then({SelectCore(SubSeq(t, c + 1, Min({d \in cuts : d > c}) - 1), table) :
          c \in cuts \ {Len(t) + 1}},
       LAMBDA parts :
         IF \A part \in parts : part.ok
         THEN [ok |-> TRUE, rows |-> UNION {part.rows : part \in parts}]
         ELSE Failed))

\* one statement run on the table: whether it succeeded, the rows it
\* returned and the table afterwards
Execute(t, table) ==
  IF Len(t) >= 3 /\ t[1] = "DELETE"
  THEN Then(Selection(SubSeq(t, 4, Len(t)), table), LAMBDA matched :
         IF t[2] = "FROM" /\ IsTransactionsTable(t[3]) /\ matched.ok
         THEN [ok |-> TRUE, rows |-> {}, table |-> table \ matched.rows]
         ELSE [ok |-> FALSE, rows |-> {}, table |-> table])
  ELSE Then(SelectStatement(t, table), LAMBDA selected :
         [ok |-> selected.ok, rows |-> selected.rows, table |-> table])

\* the statements of a text run in order in one transaction; the rows are
\* those of the last statement
RECURSIVE ExecuteAll(_, _, _)
ExecuteAll(statements, k, table) ==
  Then(Execute(statements[k], table), LAMBDA run :
    IF ~run.ok \/ k = Len(statements) THEN run
    ELSE ExecuteAll(statements, k + 1, run.table))

\* the texts the model's queries are sent as, read once
ParseTable ==
  Array([text \in UNION {{secureQueryTable[u][q] :
                            q \in DOMAIN secureQueryTable[u]} : u \in Users} |->
           Parse(text)])

parsed(text) ==
  IF text \in DOMAIN ParseTable THEN ParseTable[text] ELSE Parse(text)

\* neonSql.call(null, [text]): the text goes to the database as it is.  A
\* text of several statements is run as a whole or refused as a whole,
\* whichever the driver's protocol does (multi).
Database(text, table, multi) ==
  Then(parsed(text), LAMBDA statements :
    IF Len(statements) = 0
      THEN [ok |-> TRUE, rows |-> {}, table |-> table]
    ELSE IF Len(statements) > 1 /\ ~multi
      THEN [ok |-> FALSE, rows |-> {}, table |-> table]
    ELSE Then(ExecuteAll(statements, 1, table), LAMBDA run :
           IF run.ok THEN run
           ELSE [ok |-> FALSE, rows |-> {}, table |-> table]))

\* executeRawQuery: whether it threw and with which message, the rows it
\* returned, the texts it sent to the database, and the table afterwards
executeRawQuery(userId, query, table, multi) ==
  IF ~startsWithSelect(query)
  THEN [threw |-> TRUE, message |-> "Only SELECT queries are allowed",
        rows |-> {}, sent |-> << >>, table |-> table]
  ELSE Then(secured(userId, query), LAMBDA text :
       Then(Database(text, table, multi), LAMBDA result :
         [threw |-> ~result.ok,
          message |-> IF result.ok THEN "" ELSE "database error",
          rows |-> result.rows, sent |-> <<text>>, table |-> result.table]))

\* results.slice(0, 100)
FirstHundred(rows) ==
  IF Cardinality(rows) <= 100 THEN rows
  ELSE CHOOSE some \in SUBSET rows : Cardinality(some) = 100

\* the function of the sql_query tool: the payload it returns (before
\* JSON.stringify), with the execution it made
sqlQueryTool(userId, query, table, multi) ==
  Then(executeRawQuery(userId, query, table, multi), LAMBDA results :
    [execution |-> results,
     payload |->
       IF ~results.threw
       THEN [success |-> TRUE, rowCount |-> Cardinality(results.rows),
             data |-> FirstHundred(results.rows), query |-> query]
       ELSE [success |-> FALSE, error |-> results.message, query |-> query]])

-----------------------------------------------------------------------------
(* The vector store                                                          *)

\* A row of vector_store is
\*   [id, user_id, doc_type, source_id, text, embedding, metadata].
\* A source id handed in is a number or a string: a record with its type and
\* its value in the field of that type.

\* the decimal digits of a natural number
RECURSIVE Decimal(_)
Decimal(n) ==
  IF n < 10 THEN Ch(Digits, n + 1)
  ELSE Decimal(n \div 10) \o Ch(Digits, (n % 10) + 1)

\* String(sourceId)
String(sourceId) ==
  IF sourceId.type = "number" THEN Decimal(sourceId.number)
  ELSE sourceId.string

\* metadata handed in is an object, given by its <<key, value>> pairs of
\* strings, or undefined
Object(pairs) == [defined |-> TRUE, pairs |-> pairs]
Undefined == [defined |-> FALSE, pairs |-> << >>]

\* metadata = {} as default parameter, and doc.metadata || {}
OrEmpty(metadata) == IF metadata.defined THEN metadata.pairs ELSE << >>

\* the text of an integer
NumberText(n) == IF n < 0 THEN "-" \o Decimal(0 - n) ELSE Decimal(n)

\* JSON.stringify of an object: a pair <<key, value>> has a string value, a
\* triple <<key, value, "number">> a number
JSONstringify(object) ==
  "{" \o Join(LAMBDA i : (IF i > 1 THEN "," ELSE "")
                           \o "\"" \o object[i][1] \o "\":"
                           \o (IF Len(object[i]) = 3
                               THEN NumberText(object[i][2])
                               ELSE "\"" \o object[i][2] \o "\""),
              1, Len(object)) \o "}"

\* the embedding the hosted model returns for an input
Embedding(input) ==
  CASE input = "coffee" -> <<1, 0>>
    [] input = "rent" -> <<0, 1>>
    [] OTHER -> <<1, 1>>

\* openai.embeddings.create fails without a key or when the service fails
EmbeddingsFail(e) == ~e.OPENAI_API_KEY \/ e.model = "throws"

\* embedText: throws on blank text and when the request fails
embedText(e, text) ==
  IF Len(trim(text)) = 0 THEN [threw |-> TRUE, embedding |-> << >>]
  ELSE IF EmbeddingsFail(e) THEN [threw |-> TRUE, embedding |-> << >>]
  ELSE [threw |-> FALSE, embedding |-> Embedding(trim(text))]

\* texts.map(t => t.trim()).filter(t => t.length > 0)
RECURSIVE CleanTexts(_)
CleanTexts(texts) ==
  IF Len(texts) = 0 THEN << >>
  ELSE IF Len(trim(Head(texts))) > 0
       THEN <<trim(Head(texts))>> \o CleanTexts(Tail(texts))
       ELSE CleanTexts(Tail(texts))

\* embedTexts: one embedding per text that is not blank, in order
embedTexts(e, texts) ==
  LET cleanTexts == CleanTexts(texts)
  IN  IF Len(texts) = 0 \/ Len(cleanTexts) = 0
        THEN [threw |-> FALSE, embeddings |-> << >>]
      ELSE IF EmbeddingsFail(e)
        THEN [threw |-> TRUE, embeddings |-> << >>]
      ELSE [threw |-> FALSE,
            embeddings |-> Array([i \in 1..Len(cleanTexts) |->
                                    Embedding(cleanTexts[i])])]

SameKey(row, userId, docType, sourceId) ==
  /\ row.user_id = userId
  /\ row.doc_type = docType
  /\ row.source_id = sourceId

\* the values of an INSERT INTO vector_store
Values(userId, docType, sourceId, text, embedding, metadata) ==
  [user_id |-> userId, doc_type |-> docType, source_id |-> sourceId,
   text |-> text, embedding |-> embedding, metadata |-> metadata]

Stored(id, values) ==
  [id |-> id, user_id |-> values.user_id, doc_type |-> values.doc_type,
   source_id |-> values.source_id, text |-> values.text,
   embedding |-> values.embedding, metadata |-> values.metadata]

Conflicting(store, values) ==
  {row \in store :
     SameKey(row, values.user_id, values.doc_type, values.source_id)}

\* the insert with ON CONFLICT DO NOTHING: a row already stored is kept
InsertOnConflictDoNothing(store, id, values) ==
  IF Conflicting(store, values) # {}
  THEN [id |-> (CHOOSE row \in Conflicting(store, values) : TRUE).id,
        store |-> store]
  ELSE [id |-> id, store |-> store \cup {Stored(id, values)}]

\* INSERT ... ON CONFLICT (user_id, doc_type, source_id) DO UPDATE ...
\* RETURNING id: the id returned and the table afterwards.  The serial gives
\* id to the row proposed for insertion; a row already stored under the key
\* keeps its own id.
InsertOnConflictUpdate(store, id, values) ==
  IF Conflicting(store, values) # {}
  THEN LET old == CHOOSE row \in Conflicting(store, values) : TRUE
       IN  [id |-> old.id,
            store |-> (store \ {old}) \cup {Stored(old.id, values)}]
  ELSE [id |-> id, store |-> store \cup {Stored(id, values)}]

\* upsertDocument: whether it threw, the id it returned, the table
\* afterwards and the serial afterwards
upsertDocument(e, store, serial, userId, docType, sourceId, text, metadata) ==
  LET embedded == embedText(e, text)
      written == InsertOnConflictUpdate(store, serial,
                    Values(userId, docType, String(sourceId), text,
                           embedded.embedding,
                           JSONstringify(OrEmpty(metadata))))
  IN  IF embedded.threw
      THEN [threw |-> TRUE, id |-> 0, store |-> store, serial |-> serial]
      ELSE [threw |-> FALSE, id |-> written.id, store |-> written.store,
            serial |-> serial + 1]

\* the loop of upsertDocuments from document i on: reading embeddings[i]
\* beyond the end of the array throws, with the documents before i written
RECURSIVE UpsertLoop(_, _, _, _, _, _)
UpsertLoop(documents, embeddings, i, store, serial, ids) ==
  IF i > Len(documents)
    THEN [threw |-> FALSE, ids |-> ids, store |-> store, serial |-> serial]
  ELSE IF i > Len(embeddings)
    THEN [threw |-> TRUE, ids |-> ids, store |-> store, serial |-> serial]
  ELSE LET doc == documents[i]
           written == InsertOnConflictUpdate(store, serial,
                        Values(doc.userId, doc.docType, String(doc.sourceId),
                               doc.text, embeddings[i],
                               JSONstringify(OrEmpty(doc.metadata))))
       IN  UpsertLoop(documents, embeddings, i + 1, written.store,
                      serial + 1, Append(ids, written.id))

upsertDocuments(e, store, serial, documents) ==
  LET texts == Array([i \in 1..Len(documents) |-> documents[i].text])
      embedded == embedTexts(e, texts)
  IN  IF embedded.threw
      THEN [threw |-> TRUE, ids |-> << >>, store |-> store, serial |-> serial]
      ELSE UpsertLoop(documents, embedded.embeddings, 1, store, serial, << >>)

\* deleteDocument: result.length > 0, and the table afterwards
deleteDocument(store, userId, docType, sourceId) ==
  LET deleted == {row \in store :
                    SameKey(row, userId, docType, String(sourceId))}
  IN  [returned |-> deleted # {}, store |-> store \ deleted]

\* deleteUserDocuments: result.length, and the table afterwards
deleteUserDocuments(store, userId) ==
  LET deleted == {row \in store : row.user_id = userId}
  IN  [returned |-> Cardinality(deleted), store |-> store \ deleted]

-----------------------------------------------------------------------------
(* The state after deployment, and the operations                            *)

None == [op |-> "none"]

\* the nodes of the agent graph, with START and END of the graph library
START == "__start__"
END == "__end__"

\* AgentState with every channel at its default, before any run
NoRun ==
  [node |-> END, userId |-> "", messages |-> << >>, toolsUsed |-> << >>,
   finalResponse |-> "", executedSQL |-> "", queryResults |-> {}]

Init ==
  /\ transactions = {}
  /\ nextTxnId = 1
  /\ categoryRules = {}
  /\ nextRuleId = 1
  /\ vectorStore = {}
  /\ nextDocId = 1
  /\ env \in Envs
  /\ agent = NoRun
  /\ indexing = << >>
  /\ learning = << >>
  /\ last = None

\* ---- the normalizer on its own ----
NormalizeMerchant(description) ==
  /\ last' = [op |-> "normalizeMerchant", description |-> description,
              result |-> normalized(description)]
  /\ UNCHANGED <<transactions, nextTxnId, categoryRules, nextRuleId,
                 vectorStore, nextDocId, env, agent, indexing, learning>>

NextNormalize == \E d \in NormalizerInputs : NormalizeMerchant(d)

SpecNormalize == Init /\ [][NextNormalize]_vars

\* ---- the categorization engine ----
MaxRuleId == 2

SmartCategorize(description) ==
  /\ last' = [op |-> "smartCategorize", description |-> description,
              outcome |-> smartCategorize(env, description, categoryRules)]
  /\ UNCHANGED <<transactions, nextTxnId, categoryRules, nextRuleId,
                 vectorStore, nextDocId, env, agent, indexing, learning>>

BatchCategorize(descriptions) ==
  /\ last' = [op |-> "batchCategorize", descriptions |-> descriptions,
              outcome |-> batchCategorize(env, descriptions, categoryRules)]
  /\ UNCHANGED <<transactions, nextTxnId, categoryRules, nextRuleId,
                 vectorStore, nextDocId, env, agent, indexing, learning>>

LearnFromCorrection(originalDescription, correctedCategory, createRule) ==
  LET learned == learnFromCorrection(categoryRules, nextRuleId,
                    originalDescription, correctedCategory, createRule)
  IN  /\ learned.attempted => nextRuleId <= MaxRuleId
      /\ categoryRules' = learned.rules
      /\ nextRuleId' = IF learned.attempted THEN nextRuleId + 1
                       ELSE nextRuleId
      /\ last' = [op |-> "learnFromCorrection",
                  description |-> originalDescription,
                  category |-> correctedCategory,
                  createRule |-> createRule,
                  rulesBefore |-> categoryRules,
                  returned |-> learned.returned]
      /\ UNCHANGED <<transactions, nextTxnId, vectorStore, nextDocId, env,
                     agent, indexing, learning>>

SmartDescriptions == {JoesCoffee, "TST*SQ *JOE", "starbucks", "XQZ", "ZZ"}
LearnDescriptions == {"ZZ", "XQZ", "POS XQZ", Q50, Q51, "JOE"}
LearnCategories == {"Dining"}
BatchDescriptions == {JoesCoffee, "XQZ", "ZZ", "SQ *ZZYZX"}
BatchInputs ==
  {<< >>} \cup {<<a>> : a \in BatchDescriptions}
          \cup {<<a, b>> : a \in BatchDescriptions, b \in BatchDescriptions}

NextCategorize ==
  \/ \E d \in SmartDescriptions : SmartCategorize(d)
  \/ \E ds \in BatchInputs : BatchCategorize(ds)
  \/ \E d \in LearnDescriptions, c \in LearnCategories, b \in BOOLEAN :
        LearnFromCorrection(d, c, b)

SpecCategorize == Init /\ [][NextCategorize]_vars

\* ---- raw SQL ----
MaxTxnId == 2

NewTransactions ==
  {[user_id |-> u, description |-> "STARBUCKS", amount |-> 0 - 5,
    category |-> "Coffee"] : u \in Users}
    \cup {[user_id |-> u, description |-> "PAYROLL", amount |-> 2000,
           category |-> "Income"] : u \in Users}

InsertTransaction(transaction) ==
  /\ nextTxnId <= MaxTxnId
  /\ transactions' = transactions \cup
       {[id |-> nextTxnId, user_id |-> transaction.user_id,
         description |-> transaction.description,
         amount |-> transaction.amount, category |-> transaction.category]}
  /\ nextTxnId' = nextTxnId + 1
  /\ last' = [op |-> "insertTransaction", transaction |-> transaction]
  /\ UNCHANGED <<categoryRules, nextRuleId, vectorStore, nextDocId, env,
                 agent, indexing, learning>>

SqlQuery(userId, query, multi) ==
  \E call \in {sqlQueryTool(userId, query, transactions, multi)} :
      /\ transactions' = call.execution.table
      /\ last' = [op |-> "sql_query", userId |-> userId, query |-> query,
                  tableBefore |-> transactions,
                  execution |-> call.execution,
                  payload |-> call.payload]
      /\ UNCHANGED <<nextTxnId, categoryRules, nextRuleId, vectorStore,
                     nextDocId, env, agent, indexing, learning>>

NextQuery ==
  \/ \E t \in NewTransactions : InsertTransaction(t)
  \/ \E u \in Users, q \in Queries, multi \in BOOLEAN : SqlQuery(u, q, multi)

\* the SQL layer reads nothing of the environment: one environment is enough
InitQuery == Init /\ ~env.OPENAI_API_KEY

SpecQuery == InitQuery /\ [][NextQuery]_vars

\* ---- the vector store ----
MaxDocId == 2

DocTypes == {"transaction"}
Number(n) == [type |-> "number", number |-> n, string |-> ""]
Text(x) == [type |-> "string", number |-> 0, string |-> x]
SourceIds == {Number(1), Text("1"), Text("2")}
Texts == {"coffee", " rent", "  "}
Metadatas == {Undefined, Object(<<<<"category", "Coffee">>>>)}

Document(userId, docType, sourceId, text, metadata) ==
  [userId |-> userId, docType |-> docType, sourceId |-> sourceId,
   text |-> text, metadata |-> metadata]

BatchDocuments ==
  { Document("user_42", "transaction", Number(1), "coffee", Undefined),
    Document("user_42", "transaction", Text("1"), " rent",
             Object(<<<<"category", "Coffee">>>>)),
    Document("user_42", "transaction", Text("2"), "  ", Undefined),
    Document("user_7", "transaction", Number(1), " rent", Undefined) }

DocumentLists ==
  {<< >>} \cup {<<a>> : a \in BatchDocuments}
          \cup {<<a, b>> : a \in BatchDocuments, b \in BatchDocuments}

UpsertDocument(userId, docType, sourceId, text, metadata) ==
  LET call == upsertDocument(env, vectorStore, nextDocId, userId, docType,
                             sourceId, text, metadata)
  IN  /\ nextDocId <= MaxDocId
      /\ vectorStore' = call.store
      /\ nextDocId' = call.serial
      /\ last' = [op |-> "upsertDocument", userId |-> userId,
                  docType |-> docType, sourceId |-> sourceId, text |-> text,
                  metadata |-> metadata, storeBefore |-> vectorStore,
                  threw |-> call.threw, returned |-> call.id]
      /\ UNCHANGED <<transactions, nextTxnId, categoryRules, nextRuleId, env,
                     agent, indexing, learning>>

UpsertDocuments(documents) ==
  LET call == upsertDocuments(env, vectorStore, nextDocId, documents)
  IN  /\ nextDocId + Len(documents) <= MaxDocId + 1
      /\ vectorStore' = call.store
      /\ nextDocId' = call.serial
      /\ last' = [op |-> "upsertDocuments", documents |-> documents,
                  storeBefore |-> vectorStore,
                  threw |-> call.threw, returned |-> call.ids]
      /\ UNCHANGED <<transactions, nextTxnId, categoryRules, nextRuleId, env,
                     agent, indexing, learning>>

DeleteDocument(userId, docType, sourceId) ==
  LET call == deleteDocument(vectorStore, userId, docType, sourceId)
  IN  /\ vectorStore' = call.store
      /\ last' = [op |-> "deleteDocument", userId |-> userId,
                  docType |-> docType, sourceId |-> sourceId,
                  storeBefore |-> vectorStore, returned |-> call.returned]
      /\ UNCHANGED <<transactions, nextTxnId, categoryRules, nextRuleId,
                     nextDocId, env, agent, indexing, learning>>

DeleteUserDocuments(userId) ==
  LET call == deleteUserDocuments(vectorStore, userId)
  IN  /\ vectorStore' = call.store
      /\ last' = [op |-> "deleteUserDocuments", userId |-> userId,
                  storeBefore |-> vectorStore, returned |-> call.returned]
      /\ UNCHANGED <<transactions, nextTxnId, categoryRules, nextRuleId,
                     nextDocId, env, agent, indexing, learning>>

NextVector ==
  \/ \E u \in Users, t \in DocTypes, i \in SourceIds, x \in Texts,
        m \in Metadatas : UpsertDocument(u, t, i, x, m)
  \/ \E ds \in DocumentLists : UpsertDocuments(ds)
  \/ \E u \in Users, t \in DocTypes, i \in SourceIds : DeleteDocument(u, t, i)
  \/ \E u \in Users : DeleteUserDocuments(u)

\* the embeddings service answers or fails; an unparsable chat reply is no
\* case of the embeddings endpoint
InitVector == Init /\ env.model # "unparsable"

SpecVector == InitVector /\ [][NextVector]_vars

-----------------------------------------------------------------------------
(* Raw SQL: C1, C2, C3                                                       *)

\* the queries that are one valid SELECT statement reading the transactions
\* table, with no user_id predicate of their own
ScopableQueries ==
  {q \in Queries :
     /\ startsWith(toUpperCase(trim(q)), "SELECT")
     /\ Len(Parse(q)) = 1
     /\ SelectStatement(Parse(q)[1], {}).ok
     /\ \E i \in 1..Len(Parse(q)[1]) : IsTransactionsTable(Parse(q)[1][i])
     /\ ~includes(toUpperCase(q), "USER_ID")}

\* C1: for a valid single-statement SELECT that reads the transactions table
\* and has no user_id predicate of its own, executeRawQuery(userId, query)
\* returns only rows whose user_id is userId.
C1_ScopeInjectionTotal ==
  (/\ last.op = "sql_query"
   /\ last.query \in ScopableQueries
   /\ ~last.execution.threw) =>
    \A r \in last.execution.rows : r.user_id = last.userId

\* the queries that start with INSERT, UPDATE or DELETE, and those made of
\* several statements
WritingQueries ==
  {q \in Queries :
     \E w \in {"INSERT", "UPDATE", "DELETE"} :
        startsWith(toUpperCase(trim(q)), w)}

MultiStatementQueries == {q \in Queries : Len(Statements(q)) > 1}

\* C2: executeRawQuery rejects, before anything is sent to the database, every
\* query that starts with INSERT, UPDATE or DELETE and every query made of
\* several semicolon-separated statements.
C2_RejectsWritesAndMultiStatements ==
  (/\ last.op = "sql_query"
   /\ last.query \in WritingQueries \cup MultiStatementQueries) =>
    /\ last.execution.threw
    /\ last.execution.sent = << >>

\* the queries whose trimmed, upper-cased form does not begin with SELECT
NonSelectQueries ==
  {q \in Queries : ~startsWith(toUpperCase(trim(q)), "SELECT")}

\* C3: a query whose trimmed, upper-cased form does not begin with SELECT
\* never reaches the database: executeRawQuery throws without sending
\* anything, the sql_query tool returns a payload with success = false, and
\* the table is unchanged.
C3_NonSelectNeverSent ==
  (last.op = "sql_query" /\ last.query \in NonSelectQueries) =>
    /\ last.execution.threw
    /\ last.execution.sent = << >>
    /\ last.payload.success = FALSE
    /\ transactions = last.tableBefore

C3_Witness ==
  /\ last.op = "sql_query"
  /\ last.query = "DROP TABLE transactions"
  /\ transactions # {}
  /\ last.payload.success = FALSE
  /\ last.payload.error = "Only SELECT queries are allowed"

-----------------------------------------------------------------------------
(* The vector store: C10                                                     *)

\* the documents stored under the key of the last upsertDocument
UnderLastKey ==
  {row \in vectorStore :
     SameKey(row, last.userId, last.docType, String(last.sourceId))}

-----------------------------------------------------------------------------
(* The normalizer: C5, C6                                                    *)

\* C5: normalizeMerchant is idempotent: normalizing the value it returned for
\* a description returns that value again.
C5_NormalizeIdempotent ==
  last.op = "normalizeMerchant" =>
    normalizeMerchant(last.result) = last.result

\* C6: normalizeMerchant("SQ *JOE'S COFFEE #4521 SAN FRANCISCO CA") returns
\* exactly "JOE'S COFFEE".
C6_JoesCoffeeNormalized ==
  (last.op = "normalizeMerchant" /\ last.description = JoesCoffee) =>
    last.result = "JOE'S COFFEE"

-----------------------------------------------------------------------------
(* The categorization engine: C4, C7, C8, C9                                 *)

\* the pairs <<description, result>> of the last categorization
Categorized ==
  CASE last.op = "smartCategorize" ->
         {<<last.description, last.outcome.result>>}
    [] last.op = "batchCategorize" ->
         {<<last.descriptions[i], last.outcome.result[i]>> :
            i \in 1..Len(last.descriptions)}
    [] OTHER -> {}

\* the stored rules whose pattern the normalized merchant of d contains
RuleHits(d) ==
  {r \in categoryRules :
     includes(toUpperCase(normalized(d)), toUpperCase(r.pattern))}

\* the descriptions whose normalized merchant contains a substring of the
\* built-in pattern table
InPatternTable == {d \in Descriptions : FirstPatternMatchTable[d] # ""}

\* C4: a description whose normalized merchant contains both the pattern of a
\* stored rule and a substring of the built-in pattern table is categorized
\* with method "rule" and the category of such a rule, never method "pattern".
C4_RulePrecedence ==
  \A c \in Categorized :
    (RuleHits(c[1]) # {} /\ c[1] \in InPatternTable) =>
      /\ c[2].method = "rule"
      /\ \E r \in RuleHits(c[1]) : c[2].category = r.category

C4_Witness ==
  /\ last.op = "smartCategorize"
  /\ last.description = JoesCoffee
  /\ RuleHits(JoesCoffee) # {}
  /\ JoesCoffee \in InPatternTable
  /\ last.outcome.result.category = "Dining"

\* C7: with no stored rule matching, "SQ *JOE'S COFFEE #4521 SAN FRANCISCO CA"
\* is categorized Coffee, high, pattern, and no request goes to the hosted
\* model.
C7_JoesCoffeeCategorized ==
  (/\ last.op = "smartCategorize"
   /\ last.description = JoesCoffee
   /\ RuleHits(JoesCoffee) = {}) =>
    /\ last.outcome.result.category = "Coffee"
    /\ last.outcome.result.confidence = "high"
    /\ last.outcome.result.method = "pattern"
    /\ last.outcome.requests = 0

C7_Witness ==
  /\ last.op = "smartCategorize"
  /\ last.description = JoesCoffee
  /\ categoryRules # {}
  /\ RuleHits(JoesCoffee) = {}
  /\ env.OPENAI_API_KEY
  /\ last.outcome.result.method = "pattern"

\* C8: on an empty rule store, learnFromCorrection with createRule = true
\* creates a rule, whose pattern is the normalized merchant, exactly when the
\* normalized merchant has 3 to 50 characters, and otherwise leaves the store
\* unchanged; with createRule = false nothing is created.
C8_LearningGuard ==
  last.op = "learnFromCorrection" =>
    LET merchant == normalized(last.description)
    IN  /\ ~last.createRule =>
             /\ ~last.returned.ruleCreated
             /\ categoryRules = last.rulesBefore
        /\ (last.createRule /\ last.rulesBefore = {}) =>
             IF 3 <= Len(merchant) /\ Len(merchant) <= 50
             THEN /\ last.returned.ruleCreated
                  /\ Cardinality(categoryRules) = 1
                  /\ \A r \in categoryRules :
                        /\ r.pattern = merchant
                        /\ r.category = last.category
             ELSE /\ ~last.returned.ruleCreated
                  /\ categoryRules = {}

C8_Witness ==
  /\ last.op = "learnFromCorrection"
  /\ last.createRule
  /\ last.rulesBefore = {}
  /\ Len(normalized(last.description)) = 50
  /\ last.returned.ruleCreated
  /\ categoryRules # {}

\* C9: for a list of descriptions that match no rule and no pattern, and a
\* stubbed hosted model, batchCategorize gives each description the category
\* that smartCategorize gives it when called on it alone.
C9_BatchSingleEquivalence ==
  (/\ last.op = "batchCategorize"
   /\ \A i \in 1..Len(last.descriptions) :
         categorizeByPattern(last.descriptions[i], categoryRules).isNull) =>
    \A i \in 1..Len(last.descriptions) :
       last.outcome.result[i].category =
         smartCategorize(env, last.descriptions[i],
                         categoryRules).result.category

C9_Witness ==
  /\ last.op = "batchCategorize"
  /\ last.descriptions = <<"XQZ", "ZZ">>
  /\ env.OPENAI_API_KEY
  /\ env.model = "answers"
  /\ categorizeByPattern("XQZ", categoryRules).isNull
  /\ last.outcome.result[1].category = "Shopping"
  /\ last.outcome.result[1].method = "ai"
  /\ last.outcome.result[2].category = "Other"

-----------------------------------------------------------------------------
(* Failures of the hosted model: C11                                         *)

\* the hosted model cannot be reached: no API key, or the call throws
ModelUnavailable == ~env.OPENAI_API_KEY \/ env.model = "throws"

\* C11: when the hosted model fails (no API key, or the call throws),
\* smartCategorize/categorizeByAI and batchCategorize still return a value,
\* and every description that no rule and no pattern decides gets
\* {Other, low, fallback, suggestRule: true}.
C11_ModelFailureDegrades ==
  ModelUnavailable =>
    /\ (last.op = "smartCategorize"
          /\ categorizeByPattern(last.description, categoryRules).isNull)
        => /\ last.outcome.result = Fallback(normalized(last.description))
           /\ last.outcome.result.category = "Other"
           /\ last.outcome.result.confidence = "low"
           /\ last.outcome.result.method = "fallback"
           /\ last.outcome.result.suggestRule
    /\ last.op = "batchCategorize"
        => /\ Len(last.outcome.result) = Len(last.descriptions)
           /\ \A i \in 1..Len(last.descriptions) :
                categorizeByPattern(last.descriptions[i], categoryRules).isNull
                => last.outcome.result[i] =
                     Fallback(normalized(last.descriptions[i]))

\* a batch of a recognised and an unknown merchant while the call throws
C11_Witness ==
  /\ env.OPENAI_API_KEY /\ env.model = "throws"
  /\ last.op = "batchCategorize"
  /\ last.descriptions = <<JoesCoffee, "XQZ">>
  /\ last.outcome.requests = 1
  /\ last.outcome.result[1].method = "pattern"
  /\ last.outcome.result[2].method = "fallback"

-----------------------------------------------------------------------------
(* The rewrite of executeRawQuery: C18, C20                                  *)

\* the scope predicate for a caller
ScopePredicate(userId) == "user_id = '" \o userId \o "'"

\* The rewrite as the claim describes it, reference by reference: after a
\* table name that no WHERE follows, " WHERE user_id = '<userId>'" is
\* inserted; after a WHERE that follows the table name,
\* " user_id = '<userId>' AND" is inserted; every character of the query
\* is kept.
PerReferenceRewrite(userId, query) ==
  Then({MatchFromTransactionsWhere(query, i) : i \in 1..Len(query)} \ {0},
       LAMBDA whereEnds :
  Then({MatchFromTransactions(query, i) :
          i \in {j \in 1..Len(query) :
                   MatchFromTransactionsWhere(query, j) = 0}} \ {0},
       LAMBDA bareEnds :
         Join(LAMBDA i :
                Ch(query, i) \o
                  (IF i + 1 \in whereEnds
                     THEN " " \o ScopePredicate(userId) \o " AND"
                   ELSE IF i + 1 \in bareEnds
                     THEN " WHERE " \o ScopePredicate(userId)
                   ELSE ""),
              1, Len(query))))

\* a statement with letter case and the width of whitespace runs put aside
Canonical(statement) == toUpperCase(collapseWhitespace(statement))

\* C18: the statement executeRawQuery sends is the query with the scope
\* predicate inserted at every FROM transactions reference (a new WHERE after
\* the table name, or "user_id = ... AND" after the WHERE that follows it)
\* and nothing else changed; the GROUP BY scenario of user_42 gives
\* "... FROM transactions WHERE user_id = 'user_42' GROUP BY category".
\* (Letter case and whitespace are not compared in the general rule.)
C18_RewritePerReference ==
  (last.op = "sql_query" /\ last.execution.sent # << >>) =>
    /\ Canonical(last.execution.sent[1])
         = Canonical(PerReferenceRewrite(last.userId, last.query))
    /\ (/\ last.userId = "user_42"
        /\ last.query =
             "SELECT category, SUM(amount) FROM transactions GROUP BY category")
       => last.execution.sent[1] =
            "SELECT category, SUM(amount) FROM transactions WHERE user_id = 'user_42' GROUP BY category"

\* C20: in the statement executeRawQuery sends, every FROM transactions
\* reference is followed by a WHERE clause that starts with
\* user_id = '<userId>'.
C20_EveryReferenceScoped ==
  (last.op = "sql_query" /\ last.execution.sent # << >>) =>
    \A e \in {MatchFromTransactions(last.execution.sent[1], i) :
                i \in 1..Len(last.execution.sent[1])} \ {0} :
       startsWith(slice(last.execution.sent[1],
                        SkipSpaces(last.execution.sent[1], e) - 1),
                  "WHERE " \o ScopePredicate(last.userId))

-----------------------------------------------------------------------------
(* The agent graph                                                          *)

\* ---- messages ----
HumanMessage(content) ==
  [type |-> "human", name |-> "", content |-> content, tool_calls |-> << >>]

AIMessage(content, tool_calls) ==
  [type |-> "ai", name |-> "", content |-> content, tool_calls |-> tool_calls]

\* a ToolMessage; content is the object whose JSON text the tool returned
ToolMessage(name, content) ==
  [type |-> "tool", name |-> name, content |-> content, tool_calls |-> << >>]

\* one entry of AIMessage.tool_calls: the tool's name and its one argument
ToolCall(name, arg) == [name |-> name, arg |-> arg]

\* the object a tool returns: query and data are "" and absent where the
\* tool's object has no such key
ToolContent(success, query, hasData, data, category) ==
  [success |-> success, query |-> query, hasData |-> hasData, data |-> data,
   category |-> category]

\* the run ended with the exception a node threw
Threw == "threw"

\* ---- the tools ----
\* the result of one tool call and the transactions table after it
RunTool(e, userId, call, table, ruleRows, multi) ==
  IF call.name = "sql_query"
  THEN Then(sqlQueryTool(userId, call.arg, table, multi), LAMBDA r :
         [message |->
            ToolMessage(call.name,
              ToolContent(r.payload.success, call.arg, r.payload.success,
                          IF r.payload.success THEN r.payload.data ELSE {},
                          "")),
          table |-> r.execution.table])
  ELSE Then(smartCategorize(e, call.arg, ruleRows), LAMBDA r :
         [message |->
            ToolMessage(call.name,
              ToolContent(TRUE, "", FALSE, {}, r.result.category)),
          table |-> table])

\* ToolNode.invoke: one ToolMessage per tool call of the last AI message,
\* in the order of the calls
RECURSIVE RunTools(_, _, _, _, _, _, _, _)
RunTools(e, userId, calls, i, table, ruleRows, multi, messages) ==
  IF i > Len(calls) THEN [messages |-> messages, table |-> table]
  ELSE Then(RunTool(e, userId, calls[i], table, ruleRows, multi), LAMBDA r :
         RunTools(e, userId, calls, i + 1, r.table, ruleRows, multi,
                  Append(messages, r.message)))

\* ---- the channels' reducers ----
\* [...new Set(list)]: the first occurrence of every element, in order
RECURSIVE Dedupe(_)
Dedupe(list) ==
  IF Len(list) = 0 THEN << >>
  ELSE LET front == Dedupe(SubSeq(list, 1, Len(list) - 1))
           x == list[Len(list)]
       IN  IF \E k \in 1..Len(front) : front[k] = x THEN front
           ELSE Append(front, x)

\* the state after a node's update: messages are concatenated, toolsUsed is
\* the duplicate-free union, every other channel takes the new value; a
\* channel the update does not name keeps its value
Reduce(state, update) ==
  [state EXCEPT
     !.messages = IF "messages" \in DOMAIN update
                  THEN state.messages \o update.messages ELSE @,
     !.toolsUsed = IF "toolsUsed" \in DOMAIN update
                   THEN Dedupe(state.toolsUsed \o update.toolsUsed) ELSE @,
     !.finalResponse = IF "finalResponse" \in DOMAIN update
                       THEN update.finalResponse ELSE @,
     !.executedSQL = IF "executedSQL" \in DOMAIN update
                     THEN update.executedSQL ELSE @,
     !.queryResults = IF "queryResults" \in DOMAIN update
                      THEN update.queryResults ELSE @]

\* ---- the nodes ----
\* agentNode: the planner's reply is appended
agentNode(state, response) == [messages |-> <<response>>]

\* the last AI message of state.messages, or a message without tool calls
LastAIMessage(messages) ==
  LET ais == {k \in 1..Len(messages) : messages[k].type = "ai"}
  IN  IF ais = {} THEN AIMessage("", << >>) ELSE messages[Max(ais)]

\* the loop over result.messages of toolNodeWithTracking: executedSQL and
\* queryResults after the messages from k on
RECURSIVE Track(_, _, _, _)
Track(messages, k, executedSQL, queryResults) ==
  IF k > Len(messages)
  THEN [executedSQL |-> executedSQL, queryResults |-> queryResults]
  ELSE Track(messages, k + 1,
             IF messages[k].content.query # ""
             THEN messages[k].content.query ELSE executedSQL,
             IF messages[k].content.hasData
             THEN messages[k].content.data ELSE queryResults)

\* toolNodeWithTracking: the update it returns and the table afterwards
toolNodeWithTracking(e, state, table, ruleRows, multi) ==
  Then(RunTools(e, state.userId,
                state.messages[Len(state.messages)].tool_calls, 1, table,
                ruleRows, multi, << >>),
       LAMBDA result :
    Then(Track(result.messages, 1, state.executedSQL, state.queryResults),
         LAMBDA tracked :
      [update |->
         [messages |-> result.messages,
          toolsUsed |->
            [k \in 1..Len(LastAIMessage(state.messages).tool_calls) |->
               LastAIMessage(state.messages).tool_calls[k].name],
          executedSQL |-> tracked.executedSQL,
          queryResults |-> tracked.queryResults],
       table |-> result.table]))

\* responseFormatterNode (chartData, which no other node reads, is left out)
responseFormatterNode(state) ==
  IF state.messages[Len(state.messages)].type # "ai" THEN << >>
  ELSE [finalResponse |-> state.messages[Len(state.messages)].content]

\* shouldContinue routing to respond whatever the message carries
shouldContinue_NeverTools(state) ==
  IF state.messages[Len(state.messages)].type # "ai" THEN END ELSE "respond"

\* shouldContinue: the conditional edge out of the agent node
shouldContinue(state) ==
  IF state.messages[Len(state.messages)].type # "ai" THEN END
  ELSE IF Len(state.messages[Len(state.messages)].tool_calls) > 0
       THEN "tools"
  ELSE "respond"

\* the graph with the edge out of tools leading to END
NextNode_ToolsToEnd(node, state) ==
  CASE node = START -> "agent"
    [] node = "agent" -> shouldContinue(state)
    [] node = "tools" -> END
    [] node = "respond" -> END

\* createFinanceAgentGraph: the node that follows node in state
NextNode(node, state) ==
  CASE node = START -> "agent"
    [] node = "agent" -> shouldContinue(state)
    [] node = "tools" -> "agent"
    [] node = "respond" -> END

\* createModel throws without a key; model.invoke throws when the call fails
PlannerFails(e) == ~e.OPENAI_API_KEY \/ e.model = "throws"

Apology ==
  "I apologize, but I couldn't process your request. Please try again."

\* ---- the run, node by node ----
MaxToolRounds == 2

\* the planning steps of the run so far that asked for tools
ToolRounds(messages) ==
  Cardinality({k \in 1..Len(messages) :
                 messages[k].type = "ai" /\ messages[k].tool_calls # << >>})

\* runFinanceAgent up to the first node: the initial state enters at START
RunFinanceAgent(userQuery, userId) ==
  /\ agent.node \in {END, Threw}
  /\ agent' = [NoRun EXCEPT !.node = NextNode(START, NoRun),
                            !.userId = userId,
                            !.messages = <<HumanMessage(userQuery)>>]
  /\ last' = [op |-> "runFinanceAgent", userQuery |-> userQuery,
              userId |-> userId]
  /\ UNCHANGED <<transactions, nextTxnId, categoryRules, nextRuleId,
                 vectorStore, nextDocId, env, indexing, learning>>

AgentNode(response) ==
  /\ agent.node = "agent"
  /\ response.tool_calls # << >> => ToolRounds(agent.messages) < MaxToolRounds
  /\ \E state \in {Reduce(agent, agentNode(agent, response))} :
       agent' = IF PlannerFails(env) THEN [agent EXCEPT !.node = Threw]
                ELSE [state EXCEPT !.node = NextNode("agent", state)]
  /\ last' = [op |-> "agentNode", threw |-> PlannerFails(env)]
  /\ UNCHANGED <<transactions, nextTxnId, categoryRules, nextRuleId,
                 vectorStore, nextDocId, env, indexing, learning>>

ToolsNode(multi) ==
  /\ agent.node = "tools"
  /\ \E call \in {toolNodeWithTracking(env, agent, transactions,
                                       categoryRules, multi)} :
       /\ \E state \in {Reduce(agent, call.update)} :
            agent' = [state EXCEPT !.node = NextNode("tools", state)]
       /\ transactions' = call.table
  /\ last' = [op |-> "toolNodeWithTracking"]
  /\ UNCHANGED <<nextTxnId, categoryRules, nextRuleId, vectorStore,
                 nextDocId, env, indexing, learning>>

\* the respond node, and runFinanceAgent returning when the graph is at END
RespondNode ==
  /\ agent.node = "respond"
  /\ \E state \in {Reduce(agent, responseFormatterNode(agent))} :
       /\ agent' = [state EXCEPT !.node = NextNode("respond", state)]
       /\ last' = [op |-> "responseFormatterNode",
                   response |-> IF state.finalResponse = "" THEN Apology
                                ELSE state.finalResponse,
                   toolsUsed |-> state.toolsUsed]
  /\ UNCHANGED <<transactions, nextTxnId, categoryRules, nextRuleId,
                 vectorStore, nextDocId, env, indexing, learning>>

UserQueries == {"How much did I spend on coffee?"}

\* what the planner may reply: requests for tools, or an answer
PlannerReplies ==
  { AIMessage("", <<ToolCall("sql_query", "SELECT * FROM transactions")>>),
    AIMessage("", <<ToolCall("preview_categorization", "starbucks"),
                    ToolCall("sql_query", "DROP TABLE transactions")>>),
    AIMessage("", <<ToolCall("sql_query", "SELECT 1"),
                    ToolCall("sql_query", "SELECT 1")>>),
    AIMessage("You spent $5.00 on coffee.", << >>),
    AIMessage("", << >>) }

NextAgent ==
  \/ \E q \in UserQueries, u \in Users : RunFinanceAgent(q, u)
  \/ \E r \in PlannerReplies : AgentNode(r)
  \/ \E multi \in BOOLEAN : ToolsNode(multi)
  \/ RespondNode

SpecAgent == Init /\ [][NextAgent]_vars

\* C15: out of the agent (planning) node the run goes to tools exactly when
\* the reply just appended carries tool calls and to respond exactly when it
\* carries none; the tools node always leads back to the agent node; the
\* respond node leads to END, where the run stays; and finalResponse is set
\* by no step other than the respond node's.
C15_GraphRouting ==
  [][/\ (agent.node = "agent" /\ agent' # agent /\ agent'.node # Threw) =>
          /\ agent'.messages[Len(agent'.messages)].type = "ai"
          /\ agent'.node = "tools" <=>
               agent'.messages[Len(agent'.messages)].tool_calls # << >>
          /\ agent'.node = "respond" <=>
               agent'.messages[Len(agent'.messages)].tool_calls = << >>
     /\ (agent.node = "tools" /\ agent' # agent) => agent'.node = "agent"
     /\ (agent.node = "respond" /\ agent' # agent) => agent'.node = END
     /\ (agent.node = END /\ agent' # agent) => Len(agent'.messages) = 1
     /\ (agent'.finalResponse # agent.finalResponse
           /\ agent'.finalResponse # "") => agent.node = "respond"
    ]_vars

\* a run that went through the tools node and back, and then responded
C15_Witness ==
  /\ agent.node = END
  /\ agent.finalResponse = "You spent $5.00 on coffee."
  /\ \E k \in 1..Len(agent.messages) : agent.messages[k].type = "tool"
  /\ ToolRounds(agent.messages) = MaxToolRounds

-----------------------------------------------------------------------------
(* The HTTP routes: transactions, categories, recategorize, upload           *)

\* NextResponse.json(body, {status})
Json(status, body) == [status |-> status, body |-> body]

\* rows of a table as an array, in ascending id order
RECURSIVE ById(_)
ById(rows) ==
  IF rows = {} THEN << >>
  ELSE LET first == CHOOSE r \in rows : \A o \in rows : r.id <= o.id
       IN  <<first>> \o ById(rows \ {first})

\* ---- queries on the transactions table ----
\* db.insert(transactions).values(transaction).returning()
insertTransaction(table, id, transaction) ==
  table \cup {[id |-> id] @@ transaction}

\* updates of PATCH: the keys category and description, each present or not
Updates(hasCategory, category, hasDescription, description) ==
  [hasCategory |-> hasCategory, category |-> category,
   hasDescription |-> hasDescription, description |-> description]

\* a row with the updates set
SetUpdates(row, updates) ==
  [row EXCEPT
     !.category = IF updates.hasCategory THEN updates.category ELSE @,
     !.description = IF updates.hasDescription THEN updates.description
                     ELSE @]

\* the update without the condition on user_id
updateTransaction_AnyOwner(table, id, userId, updates) ==
  LET hit == {r \in table : r.id = id}
  IN  IF hit = {} THEN [found |-> FALSE, table |-> table]
      ELSE [found |-> TRUE,
            row |-> SetUpdates(CHOOSE r \in hit : TRUE, updates),
            table |-> (table \ hit) \cup {SetUpdates(r, updates) : r \in hit}]

\* updateTransaction: the row returned, if any, and the table afterwards
updateTransaction(table, id, userId, updates) ==
  LET hit == {r \in table : r.id = id /\ r.user_id = userId}
  IN  IF hit = {} THEN [found |-> FALSE, table |-> table]
      ELSE [found |-> TRUE,
            row |-> SetUpdates(CHOOSE r \in hit : TRUE, updates),
            table |-> (table \ hit) \cup {SetUpdates(r, updates) : r \in hit}]

\* deleteTransaction: result.length > 0, and the table afterwards
deleteTransaction(table, id, userId) ==
  LET hit == {r \in table : r.id = id /\ r.user_id = userId}
  IN  [returned |-> hit # {}, table |-> table \ hit]

\* clearTransactions: result.length, and the table afterwards
clearTransactions(table, userId) ==
  LET hit == {r \in table : r.user_id = userId}
  IN  [returned |-> Cardinality(hit), table |-> table \ hit]

\* ---- /api/transactions ----
\* the body of PATCH: id is 0 when the key is missing
PatchBody(id, updates, learn) ==
  [id |-> id, updates |-> updates, learnFromCorrection |-> learn]

PatchResponse(found, ruleCreated, hasRulePattern, rulePattern) ==
  Json(200, [success |-> TRUE,
             message |-> IF found THEN "Updated 1 transaction"
                         ELSE "Transaction not found",
             ruleCreated |-> ruleCreated,
             hasRulePattern |-> hasRulePattern,
             rulePattern |-> rulePattern])

\* PATCH /api/transactions for an authenticated caller: the response, and
\* the tables and the rule serial afterwards
PATCH(table, ruleRows, ruleSerial, userId, body) ==
  IF body.id = 0
    THEN [response |-> Json(400, [error |-> "Transaction ID is required"]),
          table |-> table, rules |-> ruleRows, ruleSerial |-> ruleSerial]
  ELSE IF ~body.updates.hasCategory /\ ~body.updates.hasDescription
    THEN [response |-> Json(400, [error |-> "No updates provided"]),
          table |-> table, rules |-> ruleRows, ruleSerial |-> ruleSerial]
  ELSE
    Then(updateTransaction(table, body.id, userId, body.updates),
         LAMBDA result :
      IF result.found /\ body.updates.hasCategory /\ body.learnFromCorrection
      THEN Then(learnFromCorrection(ruleRows, ruleSerial,
                                    result.row.description,
                                    body.updates.category, TRUE),
                LAMBDA learningResult :
             [response |->
                PatchResponse(TRUE, learningResult.returned.ruleCreated,
                              learningResult.returned.hasPattern,
                              learningResult.returned.pattern),
              table |-> result.table, rules |-> learningResult.rules,
              ruleSerial |-> IF learningResult.attempted THEN ruleSerial + 1
                             ELSE ruleSerial])
      ELSE [response |-> PatchResponse(result.found, FALSE, FALSE, ""),
            table |-> result.table, rules |-> ruleRows,
            ruleSerial |-> ruleSerial])

\* the search parameters of DELETE
DeleteParams(hasId, id, deleteAll) ==
  [hasId |-> hasId, id |-> id, deleteAll |-> deleteAll]

\* DELETE /api/transactions for an authenticated caller
DELETE(table, userId, params) ==
  IF params.hasId
    THEN Then(deleteTransaction(table, params.id, userId), LAMBDA deleted :
           [response |->
              Json(200, [success |-> TRUE,
                         message |-> IF deleted.returned
                                     THEN "Deleted 1 transaction"
                                     ELSE "Transaction not found"]),
            table |-> deleted.table])
  ELSE IF params.deleteAll
    THEN Then(clearTransactions(table, userId), LAMBDA cleared :
           [response |->
              Json(200, [success |-> TRUE,
                         message |-> "All " \o Decimal(cleared.returned)
                                       \o " transactions deleted"]),
            table |-> cleared.table])
  ELSE [response |->
          Json(400, [error |-> "No id or deleteAll parameter provided"]),
        table |-> table]

\* ---- /api/categories ----
\* like(UPPER(description), '%PATTERN%'), for a pattern without % and _
DescriptionLike(row, pattern) ==
  includes(toUpperCase(row.description), toUpperCase(pattern))

\* POST /api/categories for an authenticated caller.  The insert draws from
\* the id serial also when the unique constraint rejects it.
POSTcategories(table, ruleRows, ruleSerial, userId, pattern, category) ==
  IF pattern = "" \/ category = ""
    THEN [response |->
            Json(400, [error |-> "Pattern and category are required"]),
          table |-> table, rules |-> ruleRows, ruleSerial |-> ruleSerial]
  ELSE IF UniqueViolation(ruleRows, toUpperCase(pattern))
    THEN [response |-> Json(400, [error |-> "This pattern already exists"]),
          table |-> table, rules |-> ruleRows, ruleSerial |-> ruleSerial + 1]
  ELSE
    LET hit == {r \in table : r.user_id = userId /\ DescriptionLike(r, pattern)}
    IN  [response |->
           Json(200, [success |-> TRUE, ruleId |-> ruleSerial,
                      transactionsUpdated |-> Cardinality(hit)]),
         table |-> (table \ hit)
                     \cup {[r EXCEPT !.category = category] : r \in hit},
         rules |-> insertCategoryRule(ruleRows, ruleSerial,
                     [pattern |-> toUpperCase(pattern),
                      category |-> category]),
         ruleSerial |-> ruleSerial + 1]

\* ---- /api/recategorize ----
\* the body of POST /api/recategorize; transactionIds is a set of ids
RecategorizeBody(recategorizeAll, onlyOther, hasIds, transactionIds) ==
  [recategorizeAll |-> recategorizeAll, onlyOther |-> onlyOther,
   hasIds |-> hasIds, transactionIds |-> transactionIds]

\* the rows POST /api/recategorize processes
TxnsToProcess(table, userId, body) ==
  IF body.recategorizeAll
  THEN ById({r \in table :
               /\ r.user_id = userId
               /\ body.onlyOther => r.category = "Other"})
  ELSE ById({r \in table :
               r.user_id = userId /\ r.id \in body.transactionIds})

\* POST /api/recategorize for an authenticated caller
POSTrecategorize(e, table, ruleRows, userId, body) ==
  IF ~body.recategorizeAll /\ ~body.hasIds
    THEN [response |->
            Json(400, [error |->
              "Provide transactionIds array or set recategorizeAll: true"]),
          table |-> table]
  ELSE
    Then(TxnsToProcess(table, userId, body), LAMBDA txnsToProcess :
      IF Len(txnsToProcess) = 0
      THEN [response |->
              Json(200, [success |-> TRUE,
                         message |-> "No transactions to recategorize",
                         updated |-> 0]),
            table |-> table]
      ELSE
        Then(batchCategorize(e,
               [i \in 1..Len(txnsToProcess) |->
                  txnsToProcess[i].description], ruleRows).result,
             LAMBDA results :
          [response |->
             Json(200, [success |-> TRUE,
                        message |-> "Recategorized "
                                      \o Decimal(Len(txnsToProcess))
                                      \o " transaction(s)",
                        updated |-> Len(txnsToProcess),
                        details |->
                          [i \in 1..Len(txnsToProcess) |->
                             [id |-> txnsToProcess[i].id,
                              newCategory |-> results[i].category,
                              method |-> results[i].method]]]),
           table |->
             {r \in table :
                \A i \in 1..Len(txnsToProcess) : txnsToProcess[i].id # r.id}
               \cup {[txnsToProcess[i] EXCEPT
                        !.category = results[i].category] :
                       i \in 1..Len(txnsToProcess)}]))

\* ---- /api/upload ----
\* getTransactionType
getTransactionType(amount) == IF amount < 0 THEN "expense" ELSE "income"

\* a date of the form YYYY-MM-DD with a month of the calendar and a day that
\* every month has
IsIsoDate(s) ==
  /\ Len(s) = 10
  /\ \A i \in {1, 2, 3, 4, 6, 7, 9, 10} : IsDigit(Ch(s, i))
  /\ Ch(s, 5) = "-" /\ Ch(s, 8) = "-"
  /\ NumberValue(SubSeq(s, 6, 7)) \in 1..12
  /\ NumberValue(SubSeq(s, 9, 10)) \in 1..28

\* parseDate, for strings that are such a date or no date at all: the date
\* itself, or the current date for an invalid one
parseDate(dateString, today) ==
  IF IsIsoDate(dateString) THEN dateString ELSE today

\* parseFloat on text without fraction or exponent: blanks, a sign, digits;
\* what follows the digits is ignored
parseFloat(text) ==
  Then(trimStart(text), LAMBDA s :
    LET signed == Len(s) > 0 /\ Ch(s, 1) \in {"-", "+"}
        from == IF signed THEN 2 ELSE 1
        stops == {j \in from..Len(s) : ~IsDigit(Ch(s, j))}
        end == IF stops = {} THEN Len(s) ELSE Min(stops) - 1
    IN  IF end < from THEN [isNaN |-> TRUE, number |-> 0]
        ELSE [isNaN |-> FALSE,
              number |-> IF signed /\ Ch(s, 1) = "-"
                         THEN 0 - NumberValue(SubSeq(s, from, end))
                         ELSE NumberValue(SubSeq(s, from, end))])

\* parseAmount of a string
parseAmount(amountString) ==
  LET cleaned == trim(Join(LAMBDA i : IF Ch(amountString, i) \in {"$", ","}
                                      THEN "" ELSE Ch(amountString, i),
                           1, Len(amountString)))
      amount == parseFloat(cleaned)
  IN  IF amount.isNaN THEN 0 ELSE amount.number

\* a row of the parsed CSV: its Date, Description and Amount columns, ""
\* for a column that is missing or empty
CsvRow(date, description, amount) ==
  [Date |-> date, Description |-> description, Amount |-> amount]

\* first pass: the valid rows, description trimmed, account 'Default'
RECURSIVE ValidRows(_)
ValidRows(data) ==
  IF Len(data) = 0 THEN << >>
  ELSE IF Head(data).Date = "" \/ Head(data).Description = ""
    THEN ValidRows(Tail(data))
  ELSE <<[date |-> Head(data).Date,
          description |-> trim(Head(data).Description),
          amount |-> IF Head(data).Amount = "" THEN "0"  \* the number 0
                     ELSE Head(data).Amount,
          account |-> "Default"]>> \o ValidRows(Tail(data))

\* second pass from row i on: the table and the serial afterwards
RECURSIVE InsertRows(_, _, _, _, _, _, _)
InsertRows(validRows, categorizations, i, userId, today, table, serial) ==
  IF i > Len(validRows) THEN [table |-> table, serial |-> serial]
  ELSE InsertRows(validRows, categorizations, i + 1, userId, today,
         insertTransaction(table, serial,
           [user_id |-> userId,
            date |-> parseDate(validRows[i].date, today),
            description |-> validRows[i].description,
            amount |-> parseAmount(validRows[i].amount),
            category |-> categorizations[i].category,
            transaction_type |->
              getTransactionType(parseAmount(validRows[i].amount)),
            account |-> validRows[i].account]),
         serial + 1)

\* methodCounts[method] || 0
MethodCount(categorizations, method) ==
  Cardinality({i \in 1..Len(categorizations) :
                 categorizations[i].method = method})

\* the response of a processed upload
UploadResponse(processedCount, categorizations, skipped) ==
  Json(200,
    [success |-> TRUE,
     message |-> "Successfully processed " \o Decimal(processedCount)
                   \o " transactions",
     processedCount |-> processedCount,
     categorization |->
       [byRule |-> MethodCount(categorizations, "rule"),
        byPattern |-> MethodCount(categorizations, "pattern"),
        byAI |-> MethodCount(categorizations, "ai"),
        uncategorized |-> MethodCount(categorizations, "default")],
     errors |-> skipped])

\* ---- indexing for retrieval ----
\* formatTransactionForEmbedding, for an amount without fraction
formatTransactionForEmbedding(transaction) ==
  LET type == IF transaction.transaction_type # ""
              THEN transaction.transaction_type
              ELSE IF transaction.amount < 0 THEN "expense" ELSE "income"
      absAmount == Decimal(IF transaction.amount < 0
                           THEN 0 - transaction.amount
                           ELSE transaction.amount) \o ".00"
      category == IF transaction.category # "" THEN transaction.category
                  ELSE "Uncategorized"
  IN  type \o " of $" \o absAmount \o " on " \o transaction.date \o ": "
        \o transaction.description \o " (category: " \o category \o ")"

\* embedTransaction on a row as indexUserTransactions selects it: the row has
\* no transactionType key, so the type is undefined here and left out of the
\* stored metadata
embedTransaction(e, store, serial, userId, transaction) ==
  upsertDocument(e, store, serial, userId, "transaction",
    Number(transaction.id),
    formatTransactionForEmbedding(
      [date |-> transaction.date, description |-> transaction.description,
       amount |-> transaction.amount, category |-> transaction.category,
       transaction_type |-> ""]),
    Object(<< <<"date", transaction.date>>,
              <<"amount", transaction.amount, "number">>,
              <<"category", transaction.category>> >>))

\* the call of indexUserTransactions up to its first await: the legacy
\* handle prepares and runs the statement, or throws and the promise is
\* rejected.  A job is the promise: the rows still to embed, what is counted
\* and logged so far.
indexUserTransactions(table, userId, prepared) ==
  [userId |-> userId,
   rejected |-> ~prepared,
   pending |-> IF prepared THEN ById({r \in table : r.user_id = userId})
               ELSE << >>,
   indexed |-> 0,
   logged |-> 0,
   starts |-> 1]

\* the rejection handled by awaiting the promise: the route answers 500
IndexInBackground_Awaited(job, response) ==
  [job |-> job,
   response |-> IF job.rejected
                THEN Json(500, [error |-> "Failed to process file"])
                ELSE response]

\* indexUserTransactions(userId).catch(err => console.error(...)), not
\* awaited: a rejection is logged, the response is the one already built
IndexInBackground(job, response) ==
  [job |-> [job EXCEPT !.logged = IF job.rejected THEN 1 ELSE 0],
   response |-> response]

\* one iteration of the loop of indexUserTransactions
IndexStep(e, store, serial, job) ==
  Then(embedTransaction(e, store, serial, job.userId, Head(job.pending)),
       LAMBDA embedded :
    [job |-> [job EXCEPT !.pending = Tail(@),
                         !.indexed = IF embedded.threw THEN @ ELSE @ + 1,
                         !.logged = IF embedded.threw THEN @ + 1 ELSE @],
     store |-> embedded.store, serial |-> embedded.serial])

\* the promise is settled
Finished(job) == job.rejected \/ Len(job.pending) = 0

\* POST /api/upload for an authenticated caller with a file that parses
POSTupload(e, table, serial, ruleRows, userId, data, clearExisting, today, prepared) ==
  LET cleared == IF clearExisting THEN clearTransactions(table, userId).table
                 ELSE table
  IN  Then(ValidRows(data), LAMBDA validRows :
      Then(batchCategorize(e,
             [i \in 1..Len(validRows) |-> validRows[i].description],
             ruleRows).result, LAMBDA categorizations :
      Then(InsertRows(validRows, categorizations, 1, userId, today, cleared,
                      serial), LAMBDA inserted :
      Then(IndexInBackground(
             indexUserTransactions(inserted.table, userId, prepared),
             UploadResponse(Len(validRows), categorizations,
                            Len(data) - Len(validRows))),
           LAMBDA background :
        [response |-> background.response,
         table |-> inserted.table, serial |-> inserted.serial,
         job |-> background.job,
         validRows |-> validRows, categorizations |-> categorizations]))))

-----------------------------------------------------------------------------
(* The routes as actions                                                     *)

MaxUploads == 1

\* the date of the run
Today == "2026-01-02"

CsvFiles ==
  { <<CsvRow("2024-01-15", "starbucks", "-5")>>,
    <<CsvRow("n/a", "  XQZ ", "$1,200")>>,
    <<CsvRow("2024-01-15", "starbucks", "-5"), CsvRow("", "JOE", "3"),
      CsvRow("2024-02-01", " XQZ", "abc")>>,
    <<CsvRow("", "JOE", "3")>> }

\* POST /api/upload; the background indexing it starts is a new job
Upload(userId, data, clearExisting, prepared) ==
  /\ Len(indexing) < MaxUploads
  /\ \E call \in {POSTupload(env, transactions, nextTxnId, categoryRules,
                             userId, data, clearExisting, Today, prepared)} :
       /\ call.serial <= MaxTxnId + 1
       /\ transactions' = call.table
       /\ nextTxnId' = call.serial
       /\ indexing' = Append(indexing,
            [promise |-> call.job, response |-> call.response,
             inserted |-> call.table \ transactions])
       /\ last' = [op |-> "upload", userId |-> userId, data |-> data,
                   categorizations |-> call.categorizations,
                   response |-> call.response]
  /\ UNCHANGED <<categoryRules, nextRuleId, vectorStore, nextDocId, env,
                 agent, learning>>

\* PATCH /api/transactions
Patch(userId, body) ==
  \E call \in {PATCH(transactions, categoryRules, nextRuleId, userId, body)} :
    /\ call.ruleSerial <= MaxRuleId + 1
    /\ transactions' = call.table
    /\ categoryRules' = call.rules
    /\ nextRuleId' = call.ruleSerial
    /\ last' = [op |-> "PATCH", userId |-> userId, body |-> body,
                response |-> call.response]
    /\ UNCHANGED <<nextTxnId, vectorStore, nextDocId, env, agent, indexing, learning>>

\* DELETE /api/transactions
Delete(userId, params) ==
  \E call \in {DELETE(transactions, userId, params)} :
    /\ transactions' = call.table
    /\ last' = [op |-> "DELETE", userId |-> userId, params |-> params,
                response |-> call.response]
    /\ UNCHANGED <<nextTxnId, categoryRules, nextRuleId, vectorStore,
                   nextDocId, env, agent, indexing, learning>>

\* POST /api/categories
PostCategory(userId, pattern, category) ==
  \E call \in {POSTcategories(transactions, categoryRules, nextRuleId,
                              userId, pattern, category)} :
    /\ call.ruleSerial <= MaxRuleId + 1
    /\ transactions' = call.table
    /\ categoryRules' = call.rules
    /\ nextRuleId' = call.ruleSerial
    /\ last' = [op |-> "POST categories", userId |-> userId,
                pattern |-> pattern, category |-> category,
                response |-> call.response]
    /\ UNCHANGED <<nextTxnId, vectorStore, nextDocId, env, agent, indexing, learning>>

\* POST /api/recategorize
Recategorize(userId, body) ==
  \E call \in {POSTrecategorize(env, transactions, categoryRules, userId,
                                body)} :
    /\ transactions' = call.table
    /\ last' = [op |-> "POST recategorize", userId |-> userId,
                body |-> body, response |-> call.response]
    /\ UNCHANGED <<nextTxnId, categoryRules, nextRuleId, vectorStore,
                   nextDocId, env, agent, indexing, learning>>

\* the background job j embeds its next transaction
IndexEmbed(j) ==
  /\ j \in DOMAIN indexing
  /\ ~Finished(indexing[j].promise)
  /\ nextDocId <= MaxDocId
  /\ \E step \in {IndexStep(env, vectorStore, nextDocId,
                            indexing[j].promise)} :
       /\ vectorStore' = step.store
       /\ nextDocId' = step.serial
       /\ indexing' = [indexing EXCEPT ![j].promise = step.job]
       /\ last' = [op |-> "embedTransaction", job |-> j]
  /\ UNCHANGED <<transactions, nextTxnId, categoryRules, nextRuleId, env,
                 agent, learning>>

\* the ids sent: the first transactions, which exist once uploaded
RequestIds == {1, 2}

\* bodies of PATCH: a category of the list with learning; a category that
\* is not in the list; no id; a description; no update
PatchBodies ==
  {PatchBody(id, Updates(TRUE, "Dining", FALSE, ""), TRUE) :
     id \in RequestIds}
    \cup {PatchBody(id, Updates(TRUE, "Bogus", FALSE, ""), FALSE) :
            id \in RequestIds}
    \cup { PatchBody(0, Updates(TRUE, "Dining", FALSE, ""), FALSE),
           PatchBody(1, Updates(FALSE, "", TRUE, "ZZ"), FALSE),
           PatchBody(1, Updates(FALSE, "", FALSE, ""), FALSE) }

DeleteParameters ==
  {DeleteParams(TRUE, id, FALSE) : id \in RequestIds}
    \cup {DeleteParams(FALSE, 0, b) : b \in BOOLEAN}

RulePatterns == {"starbucks", ""}
RuleCategories == {"Dining", "Bogus"}

RecategorizeBodies ==
  { RecategorizeBody(TRUE, FALSE, FALSE, {}),
    RecategorizeBody(TRUE, TRUE, FALSE, {}),
    RecategorizeBody(FALSE, FALSE, TRUE, {1}),
    RecategorizeBody(FALSE, FALSE, FALSE, {}) }

\* the files uploaded where the indexing is not looked at
RouteFiles ==
  { <<CsvRow("n/a", "  XQZ ", "$1,200")>>,
    <<CsvRow("2024-01-15", "starbucks", "-5"), CsvRow("", "JOE", "3"),
      CsvRow("2024-02-01", " XQZ", "abc")>> }

\* the routes on transactions
NextRoutes ==
  \/ \E u \in Users, data \in RouteFiles : Upload(u, data, FALSE, FALSE)
  \/ \E u \in Users, body \in PatchBodies : Patch(u, body)
  \/ \E u \in Users, params \in DeleteParameters : Delete(u, params)

InitRoutes == Init /\ env.model = "answers"

SpecRoutes == InitRoutes /\ [][NextRoutes]_vars

\* the routes that apply rules to stored transactions
NextRules ==
  \/ \E u \in Users, data \in RouteFiles : Upload(u, data, FALSE, FALSE)
  \/ \E u \in Users, p \in RulePatterns, c \in RuleCategories :
        PostCategory(u, p, c)
  \/ \E u \in Users, body \in RecategorizeBodies : Recategorize(u, body)

SpecRules == InitRoutes /\ [][NextRules]_vars

\* uploads, deletions and the background indexing
NextIndexing ==
  \/ \E u \in Users, data \in CsvFiles, clearExisting \in BOOLEAN,
        prepared \in BOOLEAN : Upload(u, data, clearExisting, prepared)
  \/ \E u \in Users, params \in DeleteParameters : Delete(u, params)
  \/ \E j \in 1..MaxUploads : IndexEmbed(j)

SpecIndexing == InitRoutes /\ [][NextIndexing]_vars

-----------------------------------------------------------------------------
(* Ownership of transactions                                                 *)

\* the id is the id of a transaction of another user
ForeignId(table, userId, id) ==
  \E r \in table : r.id = id /\ r.user_id # userId

\* the table with no transaction of that id
Without(table, id) == {r \in table : r.id # id}

\* the rows that do not belong to the user
RowsOfOthers(table, userId) == {r \in table : r.user_id # userId}

\* C14: a PATCH or a DELETE by one user on the id of another user's
\* transaction leaves the other users' transactions and the rule store as
\* they were, and answers exactly as it answers for an id that no
\* transaction has: where the request is well formed, success with
\* 'Transaction not found'.
C14_ForeignIdLooksAbsent ==
  [][ /\ ( /\ last'.op = "PATCH"
           /\ ForeignId(transactions, last'.userId, last'.body.id) )
         => /\ RowsOfOthers(transactions', last'.userId)
                 = RowsOfOthers(transactions, last'.userId)
            /\ categoryRules' = categoryRules
            /\ last'.response
                 = PATCH(Without(transactions, last'.body.id), categoryRules,
                         nextRuleId, last'.userId, last'.body).response
            /\ last'.response.status = 200
                 => last'.response.body.message = "Transaction not found"
      /\ ( /\ last'.op = "DELETE"
           /\ last'.params.hasId
           /\ ForeignId(transactions, last'.userId, last'.params.id) )
         => /\ RowsOfOthers(transactions', last'.userId)
                 = RowsOfOthers(transactions, last'.userId)
            /\ categoryRules' = categoryRules
            /\ last'.response
                 = DELETE(Without(transactions, last'.params.id),
                          last'.userId, last'.params).response
            /\ last'.response.status = 200
                 => last'.response.body.message = "Transaction not found"
    ]_vars

\* a PATCH with a category and learning requested, on the id of a
\* transaction of another user, has been answered
C14_Witness ==
  /\ last.op = "PATCH"
  /\ ForeignId(transactions, last.userId, last.body.id)
  /\ last.body.updates.hasCategory
  /\ last.body.learnFromCorrection
  /\ last.response.status = 200
  /\ last.response.body.message = "Transaction not found"

-----------------------------------------------------------------------------
(* Rules added through /api/categories                                       *)

\* a rule with this pattern is stored
PatternStored(rules, pattern) == \E r \in rules : r.pattern = pattern

\* C17: POST /api/categories with a pattern and a category, where the
\* upper-cased pattern is already a stored rule's pattern, answers 400 with
\* 'This pattern already exists', and neither the rule store nor any
\* transaction changes.
C17_DuplicatePatternRejected ==
  [][ ( /\ last'.op = "POST categories"
        /\ last'.pattern # "" /\ last'.category # ""
        /\ PatternStored(categoryRules, toUpperCase(last'.pattern)) )
      => /\ last'.response
              = Json(400, [error |-> "This pattern already exists"])
         /\ categoryRules' = categoryRules
         /\ transactions' = transactions
    ]_vars

\* a duplicate pattern has been rejected while a transaction of the caller
\* matches the pattern and has another category than the one sent
C17_Witness ==
  /\ last.op = "POST categories"
  /\ last.response.status = 400
  /\ last.response.body.error = "This pattern already exists"
  /\ PatternStored(categoryRules, toUpperCase(last.pattern))
  /\ \E r \in transactions :
       /\ r.user_id = last.userId
       /\ DescriptionLike(r, last.pattern)
       /\ r.category # last.category

-----------------------------------------------------------------------------
(* Categories of stored transactions                                         *)

\* C12: after any sequence of uploads, PATCH edits, rules and
\* recategorizations, the category of every stored transaction is one of
\* CATEGORIES (or null).
C12_StoredCategoriesValid ==
  \A t \in transactions :
     \E i \in 1..Len(CATEGORIES) : t.category = CATEGORIES[i]

-----------------------------------------------------------------------------
(* The categorization summary of an upload                                   *)

\* the rows of the file that have a date and a description
NumberOfValidRows(data) ==
  Cardinality({i \in 1..Len(data) :
                 data[i].Date # "" /\ data[i].Description # ""})

\* C19: in the response of an upload, byRule + byPattern + byAI +
\* uncategorized is the number of valid rows, also when rows were
\* categorized by the fallback.
C19_MethodCountsSumToValidRows ==
  last.op = "upload" =>
    LET categorization == last.response.body.categorization
    IN  categorization.byRule + categorization.byPattern
          + categorization.byAI + categorization.uncategorized
          = NumberOfValidRows(last.data)

-----------------------------------------------------------------------------
(* Background indexing after an upload                                       *)

\* every background job that was started is settled
IndexingFinished ==
  /\ Len(indexing) > 0
  /\ \A j \in DOMAIN indexing : Finished(indexing[j].promise)

\* C13: once background indexing has finished, a document of type
\* 'transaction' is stored for a user and a source id only if that user has
\* the transaction with that id; deleting transactions (DELETE ?id=,
\* deleteAll=true, an upload with clearExisting) removes their documents.
C13_DocumentsFollowTransactions ==
  IndexingFinished =>
    \A d \in vectorStore :
       d.doc_type = "transaction" =>
         \E t \in transactions :
            t.user_id = d.user_id /\ Decimal(t.id) = d.source_id

\* C16: the response of an upload is fixed when the rows are inserted: it
\* reports success and the number of rows inserted whether the indexing
\* starts or fails, no step of the indexing changes it, a failure is only
\* logged, and the indexing of an upload is started once.
C16_ResponseIndependentOfIndexing ==
  [][ /\ \A j \in DOMAIN indexing' :
           /\ indexing'[j].response.status = 200
           /\ indexing'[j].response.body.success
           /\ indexing'[j].response.body.processedCount
                = Cardinality(indexing'[j].inserted)
           /\ indexing'[j].promise.starts = 1
           /\ indexing'[j].promise.rejected
                => indexing'[j].promise.logged = 1
           /\ j \in DOMAIN indexing
                => indexing'[j].response = indexing[j].response
      /\ last'.op = "upload" =>
           \A c \in BOOLEAN :
              POSTupload(env, transactions, nextTxnId, categoryRules,
                         last'.userId, last'.data, c, Today, TRUE).response
                = POSTupload(env, transactions, nextTxnId, categoryRules,
                             last'.userId, last'.data, c, Today,
                             FALSE).response
    ]_vars

\* an upload inserted rows and answered, and its indexing failed at once
C16_Witness ==
  \E j \in DOMAIN indexing :
     /\ indexing[j].response.body.processedCount > 0
     /\ indexing[j].promise.rejected
     /\ indexing[j].promise.logged = 1

-----------------------------------------------------------------------------
(* The injected predicate and the condition of the query                     *)

\* the queries of the form SELECT * FROM transactions WHERE P, P a chain of
\* comparisons linked by AND and OR
WhereQueries ==
  {q \in Queries :
     /\ startsWith(toUpperCase(trim(q)), "SELECT")
     /\ Len(Parse(q)) = 1
     /\ LET t == Parse(q)[1]
        IN  /\ Len(t) > 5
            /\ t[3] = "FROM" /\ t[4] = "TRANSACTIONS" /\ t[5] = "WHERE"
            /\ CondValid(SubSeq(t, 6, Len(t)))}

\* C21: for SELECT ... FROM transactions WHERE P, whatever the top-level
\* operator of P, every row returned after the rewrite has user_id = userId:
\* the injected predicate restricts the whole of P.
C21_PredicateRestrictsWholeCondition ==
  (/\ last.op = "sql_query"
   /\ last.query \in WhereQueries
   /\ ~last.execution.threw) =>
    \A r \in last.execution.rows : r.user_id = last.userId

-----------------------------------------------------------------------------
(* Batch upserts: documents and their embeddings                             *)

\* the embeddings the model computes from a text: none for a blank text
EmbeddingsOf(text) ==
  IF Len(trim(text)) = 0 THEN {} ELSE {Embedding(trim(text))}

\* the documents of the last upsertDocuments that were written and not
\* written again under the same key later in the list
LastWritten ==
  {i \in 1..Len(last.returned) :
     \A j \in (i + 1)..Len(last.returned) :
        ~SameKey([user_id |-> last.documents[j].userId,
                  doc_type |-> last.documents[j].docType,
                  source_id |-> String(last.documents[j].sourceId)],
                 last.documents[i].userId, last.documents[i].docType,
                 String(last.documents[i].sourceId))}

\* C22: upsertDocuments keeps documents and embeddings aligned: the document
\* stored for documents[i] carries the embedding computed from
\* documents[i].text, also when texts of the list are empty or blank.
C22_EmbeddingsAligned ==
  last.op = "upsertDocuments" =>
    \A i \in LastWritten :
       \A row \in vectorStore :
          SameKey(row, last.documents[i].userId, last.documents[i].docType,
                  String(last.documents[i].sourceId))
            => row.embedding \in EmbeddingsOf(last.documents[i].text)

-----------------------------------------------------------------------------
(* Similarity search: in the application and in the database                 *)

\* cosineSimilarity(a, b), kept exact: the dot product and the two squared
\* norms; the similarity is dot / sqrt(normA * normB), 0 for a zero vector
cosineSimilarity(a, b) ==
  [dot |-> a[1] * b[1] + a[2] * b[2],
   normA |-> a[1] * a[1] + a[2] * a[2],
   normB |-> b[1] * b[1] + b[2] * b[2]]

\* the sign of a similarity
ScoreSign(s) ==
  IF s.normA = 0 \/ s.normB = 0 \/ s.dot = 0 THEN 0
  ELSE IF s.dot > 0 THEN 1 ELSE 0 - 1

\* the square of a similarity is num / den
ScoreSquare(s) ==
  IF ScoreSign(s) = 0 THEN [num |-> 0, den |-> 1]
  ELSE [num |-> s.dot * s.dot, den |-> s.normA * s.normB]

\* similarity s is less than similarity t
ScoreLess(s, t) ==
  \/ ScoreSign(s) < ScoreSign(t)
  \/ /\ ScoreSign(s) = ScoreSign(t)
     /\ ScoreSign(s) = 1
     /\ ScoreSquare(s).num * ScoreSquare(t).den
          < ScoreSquare(t).num * ScoreSquare(s).den
  \/ /\ ScoreSign(s) = ScoreSign(t)
     /\ ScoreSign(s) = 0 - 1
     /\ ScoreSquare(s).num * ScoreSquare(t).den
          > ScoreSquare(t).num * ScoreSquare(s).den

\* score >= minScore, for a minScore p / q that is not negative
ScoreAtLeast(s, minScore) ==
  \/ minScore.p = 0 /\ ScoreSign(s) >= 0
  \/ /\ ScoreSign(s) = 1
     /\ ScoreSquare(s).num * minScore.q * minScore.q
          >= minScore.p * minScore.p * ScoreSquare(s).den

\* options of searchSimilar: docTypes is a list, empty when not given
SearchOptions(topK, docTypes, minScore) ==
  [topK |-> topK, docTypes |-> docTypes, minScore |-> minScore]

\* WHERE user_id = ? [AND doc_type IN (...)]
Matching(store, userId, docTypes) ==
  {row \in store :
     /\ row.user_id = userId
     /\ Len(docTypes) > 0 => \E i \in 1..Len(docTypes) : row.doc_type = docTypes[i]}

\* a SearchResult: the document by its id, and its score
SearchResult(row, queryEmbedding) ==
  [id |-> row.id, score |-> cosineSimilarity(queryEmbedding, row.embedding)]

\* results.filter(r => r.score >= minScore), and rows.filter(...)
RECURSIVE FilterByScore(_, _)
FilterByScore(results, minScore) ==
  IF Len(results) = 0 THEN << >>
  ELSE IF ScoreAtLeast(Head(results).score, minScore)
       THEN <<Head(results)>> \o FilterByScore(Tail(results), minScore)
       ELSE FilterByScore(Tail(results), minScore)

\* Array.prototype.sort((a, b) => b.score - a.score): descending and stable
RECURSIVE SortDescending(_)
SortDescending(results) ==
  IF Len(results) = 0 THEN << >>
  ELSE LET sorted == SortDescending(SubSeq(results, 1, Len(results) - 1))
           x == results[Len(results)]
           before == {k \in 1..Len(sorted) : ~ScoreLess(sorted[k].score, x.score)}
           n == Cardinality(before)
       IN  SubSeq(sorted, 1, n) \o <<x>> \o SubSeq(sorted, n + 1, Len(sorted))

\* .slice(0, topK), and LIMIT topK
Slice0(results, topK) == SubSeq(results, 1, Min({topK, Len(results)}))

\* the rows of a table in the orders a scan can return them
Scans(rows) ==
  {scan \in [1..Cardinality(rows) -> rows] :
     \A i, j \in 1..Cardinality(rows) : i # j => scan[i] # scan[j]}

\* searchSimilar of the application: the rows as the statement returns them,
\* scored, filtered, sorted and cut
searchSimilarApplication(scan, queryEmbedding, options) ==
  Slice0(SortDescending(FilterByScore(
           [i \in 1..Len(scan) |-> SearchResult(scan[i], queryEmbedding)],
           options.minScore)),
         options.topK)

\* ORDER BY embedding <=> query: the orders of ascending distance, rows at
\* the same distance in any order
OrderedByDistance(rows, queryEmbedding) ==
  {scan \in Scans(rows) :
     \A i \in 1..(Len(scan) - 1) :
        ~ScoreLess(SearchResult(scan[i], queryEmbedding).score,
                   SearchResult(scan[i + 1], queryEmbedding).score)}

\* searchSimilar on the database: the rows in the order of the ORDER BY, cut
\* by LIMIT, then filtered
searchSimilarDatabase(ordered, queryEmbedding, options) ==
  FilterByScore(
    Slice0([i \in 1..Len(ordered) |-> SearchResult(ordered[i], queryEmbedding)],
           options.topK),
    options.minScore)

\* one query run by both searches on the stored documents
SearchSimilar(userId, query, options) ==
  \E embedded \in {embedText(env, query)} :
    /\ ~embedded.threw
    /\ \E rows \in {Matching(vectorStore, userId, options.docTypes)} :
       \E scan \in Scans(rows),
          ordered \in OrderedByDistance(rows, embedded.embedding) :
         last' = [op |-> "searchSimilar", userId |-> userId, query |-> query,
                  options |-> options,
                  application |->
                    searchSimilarApplication(scan, embedded.embedding, options),
                  database |->
                    searchSimilarDatabase(ordered, embedded.embedding, options)]
    /\ UNCHANGED <<transactions, nextTxnId, categoryRules, nextRuleId,
                   vectorStore, nextDocId, env, agent, indexing, learning>>

SearchQueries == {"coffee", "rent", "tea"}
SearchTopK == {1, 2}
SearchDocTypes == {<< >>, <<"transaction">>, <<"schema">>}
\* minScore 0.5, the default, and 0.75
SearchMinScores == {[p |-> 1, q |-> 2], [p |-> 3, q |-> 4]}
SearchTexts == {"coffee", " rent"}

NextSearch ==
  \/ \E u \in Users, i \in SourceIds, x \in SearchTexts :
        UpsertDocument(u, "transaction", i, x, Undefined)
  \/ \E u \in Users, q \in SearchQueries, k \in SearchTopK,
        t \in SearchDocTypes, m \in SearchMinScores :
        SearchSimilar(u, q, SearchOptions(k, t, m))

InitSearch == Init /\ env.OPENAI_API_KEY /\ env.model = "answers"

SpecSearch == InitSearch /\ [][NextSearch]_vars

\* a result list is in descending order of score, has at most topK entries
\* and none below minScore
WellFormedResults(results, options) ==
  /\ Len(results) <= options.topK
  /\ \A i \in 1..Len(results) : ScoreAtLeast(results[i].score, options.minScore)
  /\ \A i \in 1..(Len(results) - 1) :
        ~ScoreLess(results[i].score, results[i + 1].score)

\* C23: on the same stored documents and the same query, the search of the
\* application and the search of the database return the same documents in
\* the same order, and each result is sorted by descending score, has at
\* most topK entries and none below minScore.
C23_SearchesAgree ==
  last.op = "searchSimilar" =>
    /\ last.application = last.database
    /\ WellFormedResults(last.application, last.options)
    /\ WellFormedResults(last.database, last.options)

\* ---- batchCategorize over lists longer than one group ----
\* a list of n descriptions: every seventh is resolved by the built-in
\* patterns, the others go to the hosted model
LongList(n) ==
  [i \in 1..n |-> IF i % 7 = 0 THEN "starbucks"
                  ELSE IF i % 2 = 0 THEN "ZZ" ELSE "XQZ"]

BatchLengths == {0, 6, 23, 24, 50}

BatchLists ==
  {LongList(n) : n \in BatchLengths} \cup
  {<<JoesCoffee, "TST*SQ *JOE", "SQ *ZZYZX", "POS XQZ", "ACME LLC INC">>}

GroupBehaviours == {"answers", "short", "unparsable", "throws"}

\* the API key unset, or set with the behaviour of each of the first three
\* requests of a call chosen freely
ScriptedEnvs ==
  {[OPENAI_API_KEY |-> FALSE, model |-> "answers", script |-> << >>]} \cup
  {[OPENAI_API_KEY |-> TRUE, model |-> "answers", script |-> <<a, b, c>>] :
     a \in GroupBehaviours, b \in GroupBehaviours, c \in GroupBehaviours}

InitBatch ==
  /\ transactions = {}
  /\ nextTxnId = 1
  /\ categoryRules = {}
  /\ nextRuleId = 1
  /\ vectorStore = {}
  /\ nextDocId = 1
  /\ env \in ScriptedEnvs
  /\ agent = NoRun
  /\ indexing = << >>
  /\ learning = << >>
  /\ last = None

NextBatch == \E descriptions \in BatchLists : BatchCategorize(descriptions)

SpecBatch == InitBatch /\ [][NextBatch]_vars

\* the indices of descriptions that no pattern and no rule resolves
Unresolved(descriptions) ==
  {i \in 1..Len(descriptions) :
     categorizeByPattern(descriptions[i], categoryRules).isNull}

\* the group an unresolved index falls in when the unresolved indices are cut,
\* in order, into consecutive groups of batchSize
GroupOf(unresolved, idx) ==
  ((Cardinality({k \in unresolved : k <= idx}) - 1) \div batchSize) + 1

NumberOfGroups(unresolved) ==
  (Cardinality(unresolved) + batchSize - 1) \div batchSize

C29_BatchTotalAndAligned ==
  last.op = "batchCategorize" =>
    /\ Len(last.outcome.result) = Len(last.descriptions)
    /\ \A i \in 1..Len(last.descriptions) :
         /\ ~last.outcome.result[i].isNull
         /\ last.outcome.result[i].normalizedMerchant =
              normalized(last.descriptions[i])

\* a reply one name short in the first group and a transport failure in the
\* second: results before, inside and after the failing group are all there
C29_Witness ==
  /\ last.op = "batchCategorize"
  /\ env.OPENAI_API_KEY
  /\ env.script[1] = "short"
  /\ env.script[2] = "throws"
  /\ Len(last.descriptions) = 50
  /\ last.outcome.requests = 2
  /\ last.outcome.result[23].method = "ai"
  /\ last.outcome.result[23].category = "Other"
  /\ last.outcome.result[7].method = "pattern"
  /\ last.outcome.result[50].method = "fallback"

\* ---- the agent graph run to its end ----
\* graph.invoke awaits node after node: a node that can run does run. The
\* planner is reachable and answers; when it stops asking for tools is left
\* open up to MaxToolRounds
InitAgentLive == Init /\ env.OPENAI_API_KEY /\ env.model = "answers"

SpecAgentLive ==
  /\ InitAgentLive
  /\ [][NextAgent]_vars
  /\ WF_vars(\E r \in PlannerReplies : AgentNode(r))
  /\ WF_vars(\E multi \in BOOLEAN : ToolsNode(multi))
  /\ WF_vars(RespondNode)

\* the replies of the planner that ask for tools
ToolRequests == {r \in PlannerReplies : r.tool_calls # << >>}

\* the graph would route a reply asking for tools to the tools node, however
\* many rounds the run has been through
RoutesEveryRequestToTools ==
  agent.node = "agent" =>
    \A r \in ToolRequests :
      NextNode("agent", Reduce(agent, agentNode(agent, r))) = "tools"

\* the run is at the respond node only after a reply without tool calls
RespondsOnlyToAnAnswer ==
  agent.node = "respond" =>
    /\ agent.messages[Len(agent.messages)].type = "ai"
    /\ agent.messages[Len(agent.messages)].tool_calls = << >>

\* C25: the graph puts no limit on the rounds of planning and acting: a
\* request for tools is routed to the tools node in every round, the respond
\* node is reached only by a planning step without tool calls, and a run whose
\* planner stops asking for tools ends at END with the response set by the
\* respond node
C25_RunEndsWhenPlannerStops ==
  /\ [](RoutesEveryRequestToTools /\ RespondsOnlyToAnAnswer)
  /\ (agent.node = "agent") ~>
       (agent.node = END /\ last.op = "responseFormatterNode"
          /\ last.response # "")

\* a run that asked for tools in MaxToolRounds rounds and then ended with the
\* planner's answer
C25_Witness ==
  /\ agent.node = END
  /\ last.op = "responseFormatterNode"
  /\ last.response = "You spent $5.00 on coffee."
  /\ ToolRounds(agent.messages) = MaxToolRounds

\* the names of the tool calls of the planning steps of messages, in order
RECURSIVE CallsMade(_)
CallsMade(messages) ==
  IF Len(messages) = 0 THEN << >>
  ELSE LET m == messages[Len(messages)]
           before == CallsMade(SubSeq(messages, 1, Len(messages) - 1))
       IN  IF m.type = "ai"
           THEN before \o [k \in 1..Len(m.tool_calls) |-> m.tool_calls[k].name]
           ELSE before

\* how often name occurs in list
Occurrences(list, name) == Cardinality({k \in 1..Len(list) : list[k] = name})

\* C26: the toolsUsed returned at the end of a run holds one entry for every
\* tool call made in the run, also for calls of the same tool
C26_ToolsUsedRecordsEveryCall ==
  last.op = "responseFormatterNode" =>
    \A name \in {"sql_query", "preview_categorization"} :
      Occurrences(last.toolsUsed, name) =
        Occurrences(CallsMade(agent.messages), name)

\* ---- learnFromCorrection, several calls at once ----
MaxLearners == 2

ConcurrentDescriptions == {"XQZ", "POS XQZ", "JOE"}

ConcurrentCategories == {"Dining", "Shopping"}

\* learnFromCorrection is called with createRule = true: everything before
\* the store call depends on the arguments alone
LearnCall(originalDescription, correctedCategory) ==
  /\ Len(learning) < MaxLearners
  /\ learning' = Append(learning,
                   [originalDescription |-> originalDescription,
                    correctedCategory |-> correctedCategory,
                    pc |-> "insertCategoryRule",
                    returned |-> LearnResult(FALSE, FALSE, "")])
  /\ last' = [op |-> "learnFromCorrection:call"]
  /\ UNCHANGED <<transactions, nextTxnId, categoryRules, nextRuleId,
                 vectorStore, nextDocId, env, agent, indexing>>

\* the store call of call k, one statement of the database, and the return
LearnStore(k) ==
  /\ learning[k].pc = "insertCategoryRule"
  /\ \E learned \in {learnFromCorrection(categoryRules, nextRuleId,
                       learning[k].originalDescription,
                       learning[k].correctedCategory, TRUE)} :
       /\ categoryRules' = learned.rules
       /\ nextRuleId' = IF learned.attempted THEN nextRuleId + 1
                        ELSE nextRuleId
       /\ learning' = [learning EXCEPT ![k].pc = "returned",
                                       ![k].returned = learned.returned]
  /\ last' = [op |-> "learnFromCorrection:return", call |-> k]
  /\ UNCHANGED <<transactions, nextTxnId, vectorStore, nextDocId, env, agent,
                 indexing>>

NextLearn ==
  \/ \E d \in ConcurrentDescriptions, c \in ConcurrentCategories :
       LearnCall(d, c)
  \/ \E k \in DOMAIN learning : LearnStore(k)

SpecLearn == Init /\ [][NextLearn]_vars

\* the calls that have returned and whose description normalizes to pattern
ReturnedFor(pattern) ==
  {k \in DOMAIN learning :
     /\ learning[k].pc = "returned"
     /\ normalized(learning[k].originalDescription) = pattern}

\* C27: of the calls of learnFromCorrection that have returned for one
\* normalized pattern, in whatever order their store calls ran, exactly one
\* returned ruleCreated = true, every other returned ruleCreated = false with
\* the pattern (the conflict branch, no error), and the store holds exactly
\* one rule of that pattern, with the category of the call that succeeded
C27_OneRulePerPattern ==
  \A j \in DOMAIN learning :
    learning[j].pc = "returned" =>
      Then(normalized(learning[j].originalDescription), LAMBDA pattern :
        /\ Cardinality({k \in ReturnedFor(pattern) :
                          learning[k].returned.ruleCreated}) = 1
        /\ \A k \in ReturnedFor(pattern) :
             \/ learning[k].returned = LearnResult(TRUE, TRUE, pattern)
             \/ learning[k].returned = LearnResult(FALSE, TRUE, pattern)
        /\ Cardinality({r \in categoryRules : r.pattern = pattern}) = 1
        /\ \A r \in categoryRules : \A k \in ReturnedFor(pattern) :
             (r.pattern = pattern /\ learning[k].returned.ruleCreated)
               => r.category = learning[k].correctedCategory)

\* two calls for one pattern with different categories: the call made second
\* stored first and created the rule, the call made first met the conflict
C27_Witness ==
  /\ Len(learning) >= 2
  /\ learning[1].pc = "returned"
  /\ learning[2].pc = "returned"
  /\ learning[1].originalDescription = "XQZ"
  /\ learning[2].originalDescription = "POS XQZ"
  /\ learning[1].correctedCategory = "Dining"
  /\ learning[2].correctedCategory = "Shopping"
  /\ learning[2].returned.ruleCreated
  /\ ~learning[1].returned.ruleCreated
  /\ \E r \in categoryRules : r.pattern = "XQZ" /\ r.category = "Shopping"

\* ---- rules added through the route, then applied by the engine ----
EngineFiles ==
  { <<CsvRow("2024-01-15", "POS XQZ", "-5"),
      CsvRow("2024-01-16", "starbucks", "-4")>> }

EnginePatterns == {"xqz", "qz", "pos"}

EngineCategories == {"Dining", "Travel"}

RecategorizeEverything == RecategorizeBody(TRUE, FALSE, FALSE, {})

NextEngine ==
  \/ \E u \in Users, data \in EngineFiles : Upload(u, data, FALSE, FALSE)
  \/ \E u \in Users, p \in EnginePatterns, c \in EngineCategories :
        PostCategory(u, p, c)
  \/ \E u \in Users : Recategorize(u, RecategorizeEverything)

SpecEngine == InitRoutes /\ [][NextEngine]_vars

\* the stored rules whose pattern the normalized merchant of description
\* contains, case-insensitively
MatchingRules(description) ==
  {r \in categoryRules :
     includes(toUpperCase(normalized(description)), toUpperCase(r.pattern))}

\* C28: after a recategorize-all, a transaction of the caller that stored
\* rules match carries the category of the matching rule with the least
\* pattern, whatever the order in which the rules were inserted
C28_FirstRuleInPatternOrder ==
  (/\ last.op = "POST recategorize"
   /\ last.response.status = 200) =>
    \A r \in transactions :
      r.user_id = last.userId =>
        \A rule \in MatchingRules(r.description) :
          (\A o \in MatchingRules(r.description) \ {rule} :
             StrLess(rule.pattern, o.pattern))
            => r.category = rule.category

\* two rules match a transaction; the one with the lesser pattern was
\* inserted later, and the transaction carries its category
C28_Witness ==
  /\ last.op = "POST recategorize"
  /\ last.response.status = 200
  /\ \E r \in transactions, a \in categoryRules, b \in categoryRules :
       /\ r.user_id = last.userId
       /\ {a, b} \subseteq MatchingRules(r.description)
       /\ StrLess(a.pattern, b.pattern)
       /\ a.id > b.id
       /\ a.category # b.category
       /\ r.category = a.category

\* C30: a recategorize-all that directly follows a successful POST
\* /api/categories of the same caller leaves the category of the request on
\* every transaction the request had updated; and the POST changes no
\* transaction of another user
C30_RuleAgreesWithEngine ==
  [][/\ (/\ last.op = "POST categories"
         /\ last.response.status = 200
         /\ last'.op = "POST recategorize"
         /\ last'.userId = last.userId
         /\ last'.response.status = 200) =>
          \A r \in transactions :
            (r.user_id = last.userId /\ DescriptionLike(r, last.pattern)) =>
              \E n \in transactions' :
                n.id = r.id /\ n.category = last.category
     /\ last'.op = "POST categories" =>
          RowsOfOthers(transactions', last'.userId)
            = RowsOfOthers(transactions, last'.userId)
    ]_vars

====
